---------------------------- MODULE Spec2Model ----------------------------
(***************************************************************************)
(* Flashcard review application: the spaced-repetition scheduler           *)
(* (calculateNextDueDate), the React state held by App (flashcards,        *)
(* currentFlashcardIndex, error, loading), the flashcardService client and *)
(* the worker's /api/flashcards endpoints over the KV namespace.           *)
(*                                                                         *)
(* A card is a record whose optional fields (exampleSentence,              *)
(* lastReviewedAt, dueDate, interval) are absent from its DOMAIN when the  *)
(* JavaScript object does not have them.  An interval is a number of days, *)
(* a binary64 value: it is kept as [num, exp], the number num * 2^exp with *)
(* num odd (0 is [0, 0]), and doubling and halving round and overflow as   *)
(* the binary64 operations do.                                             *)
(* Timestamps are milliseconds, as in the code.                            *)
(***************************************************************************)
EXTENDS Integers, Sequences, FiniteSets, TLC

\* ------------------------------------------------------------------ bounds
MaxEvents == 2         \* store calls issued plus clock ticks seen in a session
MaxClock == 1          \* the clock readings of the scheduler harness: 0..MaxClock
MaxSchedSteps == 3     \* chained reviews applied by the scheduler harness
FloatSpan == 6         \* exponents the number-range harness starts from, around
                       \* each end of the range and around 1 day
MaxDays == 24          \* largest interval the scheduler harness produces: the
                       \* due date in ms stays within TLC's 32-bit integers

\* --------------------------------------------------------------- constants
DayMs == 24 * 60 * 60 * 1000
Null == <<>>

\* ---------------------------------------------------------------- numbers
\* The exponents of the smallest positive binary64 number, 2^MinExp, and of
\* the largest power of two, 2^MaxExp
MinExp == 0 - 1074
MaxExp == 1023

RECURSIVE TwoTo(_)
TwoTo(k) == IF k = 0 THEN 1 ELSE 2 * TwoTo(k - 1)

\* The number of binary digits of n
RECURSIVE BitLen(_)
BitLen(n) == IF n = 0 THEN 0 ELSE 1 + BitLen(n \div 2)

Zero == [num |-> 0, exp |-> 0]
One == [num |-> 1, exp |-> 0]

\* Infinity is kept as the power of two beyond the range.
Infinity == [num |-> 1, exp |-> MaxExp + 1]

\* n * 2^e with n made odd
RECURSIVE Norm(_, _)
Norm(n, e) ==
  IF n = 0 THEN Zero
  ELSE IF n % 2 = 0 THEN Norm(n \div 2, e + 1)
  ELSE [num |-> n, exp |-> e]

RECURSIVE Log2(_)
Log2(d) == IF d = 1 THEN 0 ELSE 1 + Log2(d \div 2)

\* The number n / d, d a power of two
Q(n, d) == Norm(n, 0 - Log2(d))

\* a <= b: by the place of the leading digit, and by the digits when the
\* leading digits are in the same place
NumLeq(a, b) ==
  IF a.num = 0 THEN TRUE
  ELSE IF b.num = 0 THEN FALSE
  ELSE IF BitLen(a.num) + a.exp # BitLen(b.num) + b.exp
  THEN BitLen(a.num) + a.exp < BitLen(b.num) + b.exp
  ELSE LET m == IF a.exp < b.exp THEN a.exp ELSE b.exp
       IN a.num * TwoTo(a.exp - m) <= b.num * TwoTo(b.exp - m)

\* newInterval * 2: exact, and Infinity from 2^(MaxExp + 1) on
Double(q) ==
  IF q.num = 0 THEN q
  ELSE IF BitLen(q.num) + q.exp >= MaxExp + 1 THEN Infinity
  ELSE [num |-> q.num, exp |-> q.exp + 1]

Halve_roundsDown(q) ==
  IF q.num = 0 \/ q = Infinity THEN q
  ELSE IF q.exp > MinExp THEN [num |-> q.num, exp |-> q.exp - 1]
  ELSE Norm(q.num \div 2, MinExp)

\* newInterval / 2: exact down to the multiples of 2^MinExp; half of an odd
\* multiple of 2^MinExp lies midway between two of them and is rounded to
\* the even one (2^MinExp / 2 is 0).  Infinity / 2 is Infinity.
Halve(q) ==
  IF q.num = 0 \/ q = Infinity THEN q
  ELSE IF q.exp > MinExp THEN [num |-> q.num, exp |-> q.exp - 1]
  ELSE LET below == q.num \div 2
       IN Norm(IF below % 2 = 0 THEN below ELSE below + 1, MinExp)

\* Math.max(a, b)
MathMax(a, b) == IF NumLeq(b, a) THEN a ELSE b

\* newInterval * 24 * 60 * 60 * 1000 in milliseconds, for an interval whose
\* milliseconds are a whole number (WholeMs)
DaysToMs(q) ==
  IF q.exp >= 0 THEN q.num * TwoTo(q.exp) * DayMs
  ELSE (q.num * DayMs) \div TwoTo(0 - q.exp)

\* The interval is a whole number of milliseconds: every product of
\* newInterval * 24 * 60 * 60 * 1000 is exact.
WholeMs(q) ==
  IF q.exp >= 0 THEN TRUE ELSE (q.num * DayMs) % TwoTo(0 - q.exp) = 0

\* ------------------------------------------------------------------- cards
Has(c, f) == f \in DOMAIN c

\* c.f || 0
OrZero(c, f) == IF Has(c, f) THEN c[f] ELSE 0

\* flashcard.interval || 0
IntervalOrZero(c) == IF Has(c, "interval") THEN c.interval ELSE Zero

\* { ...c, ...upd }: the fields of upd override or extend those of c
Spread(c, upd) ==
  [f \in DOMAIN c \cup DOMAIN upd |-> IF f \in DOMAIN upd THEN upd[f] ELSE c[f]]

\* The interval after a review
nextInterval_wrongFloor(i, success) ==
  IF success THEN (IF i.num = 0 THEN One ELSE Double(i))
             ELSE MathMax(Zero, Halve(i))

nextInterval(i, success) ==
  IF success THEN MathMax(One, IF i.num = 0 THEN One ELSE Double(i))
             ELSE MathMax(Zero, Halve(i))

\* calculateNextDueDate: t1 is the Date.now() read for newDueDate, t2 the
\* later Date.now() read for lastReviewedAt.
calculateNextDueDate_touchesCreatedAt(flashcard, success, t1, t2) ==
  LET newInterval == nextInterval(IntervalOrZero(flashcard), success)
      newDueDate == t1 + DaysToMs(newInterval)
  IN Spread(flashcard, [lastReviewedAt |-> t2, interval |-> newInterval,
                        dueDate |-> newDueDate, createdAt |-> t2])

calculateNextDueDate(flashcard, success, t1, t2) ==
  LET newInterval == nextInterval(IntervalOrZero(flashcard), success)
      newDueDate == t1 + DaysToMs(newInterval)
  IN Spread(flashcard, [lastReviewedAt |-> t2, interval |-> newInterval,
                        dueDate |-> newDueDate])

\* ----------------------------------------------------------------- sorting
\* The comparator (a, b) => (a.dueDate || 0) - (b.dueDate || 0)
DueKey(c) == OrZero(c, "dueDate")

\* Array.prototype.sort is stable: x goes after every element whose key is
\* not greater than its own.
RECURSIVE InsertByDue_beforeTies(_, _)
InsertByDue_beforeTies(x, s) ==
  IF s = <<>> THEN <<x>>
  ELSE IF DueKey(s[Len(s)]) < DueKey(x) THEN Append(s, x)
  ELSE Append(InsertByDue_beforeTies(x, SubSeq(s, 1, Len(s) - 1)), s[Len(s)])

RECURSIVE InsertByDue(_, _)
InsertByDue(x, s) ==
  IF s = <<>> THEN <<x>>
  ELSE IF DueKey(s[Len(s)]) <= DueKey(x) THEN Append(s, x)
  ELSE Append(InsertByDue(x, SubSeq(s, 1, Len(s) - 1)), s[Len(s)])

RECURSIVE SortFrom(_, _)
SortFrom(s, acc) ==
  IF s = <<>> THEN acc ELSE SortFrom(Tail(s), InsertByDue(Head(s), acc))

sortByDueDate_none(s) == s

sortByDueDate(s) == SortFrom(s, <<>>)
VARIABLES
  store,                  \* the KV namespace: key -> stored text
  issuedIds,              \* the identifiers crypto.randomUUID() has handed out
  clock,                  \* the last reading of Date.now()
  flashcards,             \* App state: the card list
  currentFlashcardIndex,  \* App state: the review cursor
  error,                  \* App state: the error message, or Null
  loading,                \* App state: the loading flag
  suggestedWords,         \* App state: the suggestions listed on /suggest
  loadingSuggestions,     \* App state: a suggestion request is awaited
  addingSuggestionWord,   \* App state: <<word>> of the suggestion being added, or Null
  isReadingAloud,         \* App state: speech is requested or playing
  page,                   \* the route the router displays
  form,                   \* AddWordForm state: the fields, the error text, and
                          \* the generation awaited (loadingDefinition)
  mounted,                \* whether App's mount effects have run
  inflight,               \* the calls awaiting their continuation
  nEvents,                \* calls issued and clock ticks seen so far
  direct,                 \* harness: the handler last called directly
  sched                   \* harness: the scheduler applied to a card

appVars == <<flashcards, currentFlashcardIndex, error, loading>>
kvVars == <<store, issuedIds, clock>>
suggestVars == <<suggestedWords, loadingSuggestions, addingSuggestionWord>>
asideVars == <<suggestedWords, loadingSuggestions, addingSuggestionWord,
               isReadingAloud, page, form>>
mainVars == <<store, issuedIds, clock, flashcards, currentFlashcardIndex, error,
              loading, suggestedWords, loadingSuggestions, addingSuggestionWord,
              isReadingAloud, page, form, mounted, inflight, nEvents>>
harnessVars == <<direct, sched>>
vars == <<mainVars, harnessVars>>

\* ------------------------------------------------------------------- JSON
\* JSON.stringify of a card: the text that parses back to its fields.
JSONstringify(c) == [json |-> c]

\* A stored text that is not JSON
Corrupt == [text |-> "corrupt"]

\* The stored text ""
EmptyText == [text |-> ""]

\* What KVNamespace.get resolves with for a key that is not there: null
KvAbsent == [absent |-> TRUE]

IsJSON(v) == Has(v, "json")

\* JSON.parse, for a text that is JSON
JSONparse(v) == v.json

\* ------------------------------------------------------------------ worker
createJsonResponse(data, status) == [status |-> status, body |-> data]

createErrorResponse(message, status) ==
  [status |-> status, body |-> [success |-> FALSE, error |-> message]]

\* A key is a string; the keys of the model are numerals of one or two
\* digits, kept as numbers, and KeyText is the numeral's digits.  The numbers
\* from 100 on stand for the numerals with a leading zero: 100 is "00" and
\* 101 is "01".
KeyText(k) == IF k < 10 THEN <<k>> ELSE <<(k \div 10) % 10, k % 10>>

\* s < t for strings, character by character; a proper prefix comes first.
RECURSIVE TextBefore(_, _)
TextBefore(s, t) ==
  IF t = <<>> THEN FALSE
  ELSE IF s = <<>> THEN TRUE
  ELSE IF Head(s) # Head(t) THEN Head(s) < Head(t)
  ELSE TextBefore(Tail(s), Tail(t))

\* KVNamespace.list() returns the keys in the order of their names as
\* strings: "10" comes before "2".
RECURSIVE KeysInOrder(_)
KeysInOrder(S) ==
  IF S = {} THEN <<>>
  ELSE LET k == CHOOSE x \in S :
                  \A y \in S \ {x} : TextBefore(KeyText(x), KeyText(y))
       IN <<k>> \o KeysInOrder(S \ {k})

\* KVNamespace.get(key)
KvGet(kv, key) == IF key \in DOMAIN kv THEN kv[key] ELSE KvAbsent

\* value ? JSON.parse(value) : null -- null and "" are falsy and are not parsed
Falsy(v) == v = KvAbsent \/ v = EmptyText

\* JSON.parse(value) throws
ParseFails(v) == ~Falsy(v) /\ ~IsJSON(v)

\* (await Promise.all(flashcardPromises)).filter(Boolean), for the values got
\* read for the listed keys
workerListing(keys, got) ==
  LET kept == SelectSeq(keys, LAMBDA k : ~Falsy(got[k]))
  IN createJsonResponse([i \in 1..Len(kept) |-> JSONparse(got[kept[i]])], 200)

\* GET /api/flashcards while no other request is served: every key's value
\* is parsed; a parse error or a KV error fails the whole request.
workerGet(kv, kvThrows) ==
  IF kvThrows
  THEN createErrorResponse(<<"Failed to retrieve flashcards:", "KV error">>, 500)
  ELSE IF \E k \in DOMAIN kv : ParseFails(kv[k])
  THEN createErrorResponse(
         <<"Failed to retrieve flashcards:", "Unexpected token">>, 500)
  ELSE workerListing(KeysInOrder(DOMAIN kv), kv)

workerNewCard_clientWins(newFlashcardData, id, createdAt, dueDate) ==
  Spread([id |-> id, createdAt |-> createdAt, dueDate |-> dueDate,
          interval |-> Zero], newFlashcardData)

\* POST /api/flashcards: the card the worker builds from the request body
workerNewCard(newFlashcardData, id, createdAt, dueDate) ==
  Spread(newFlashcardData, [id |-> id, createdAt |-> createdAt,
                            dueDate |-> dueDate, interval |-> Zero])

\* ----------------------------------------------------------------- service
\* What fetch settles with: a Response, or a rejection.
Rejected == [rejected |-> TRUE]

IsRejected(outcome) == Has(outcome, "rejected")

ResponseOk(http) == http.status >= 200 /\ http.status <= 299

\* parseErrorResponse on the worker's JSON error body
parseErrorResponse(http) == http.body.error

ServicePrefix(kind) ==
  CASE kind = "list" -> "Failed to fetch flashcards:"
    [] kind = "add" -> "Failed to add flashcard:"
    [] kind = "update" -> "Failed to update flashcard:"
    [] kind = "delete" -> "Failed to delete flashcard:"

ServiceResult_throws(kind, outcome) ==
  IF IsRejected(outcome)
  THEN [thrown |-> <<"Failed to fetch">>]
  ELSE IF ~ResponseOk(outcome)
  THEN [success |-> FALSE,
        error |-> <<ServicePrefix(kind), outcome.status, parseErrorResponse(outcome)>>]
  ELSE IF kind = "delete" THEN [success |-> TRUE]
  ELSE [success |-> TRUE, data |-> outcome.body]

\* The ApiResponse of getFlashcards, addFlashcard, updateFlashcard and
\* deleteFlashcard for what fetch settled with
ServiceResult(kind, outcome) ==
  IF IsRejected(outcome)
  THEN [success |-> FALSE, error |-> <<"Failed to fetch">>]
  ELSE IF ~ResponseOk(outcome)
  THEN [success |-> FALSE,
        error |-> <<ServicePrefix(kind), outcome.status, parseErrorResponse(outcome)>>]
  ELSE IF kind = "delete" THEN [success |-> TRUE]
  ELSE [success |-> TRUE, data |-> outcome.body]

\* The ApiResponse of geminiService.generateDefinition, suggestWords and
\* generateSpeech: the error of a response that is not ok is the worker's
\* message.
GeminiResult(kind, outcome) ==
  IF IsRejected(outcome)
  THEN [success |-> FALSE, error |-> <<"Failed to fetch">>]
  ELSE IF ~ResponseOk(outcome)
  THEN [success |-> FALSE, error |-> outcome.body.error]
  ELSE IF kind = "speech" THEN [success |-> TRUE, data |-> outcome.body.data]
  ELSE [success |-> TRUE, data |-> outcome.body]

\* --------------------------------------------------------------- App state
\* flashcards.find((f) => f.id === id)
HasId(cards, id) == \E i \in 1..Len(cards) : cards[i].id = id

FindById(cards, id) ==
  cards[CHOOSE i \in 1..Len(cards) :
          cards[i].id = id /\ \A j \in 1..(i - 1) : cards[j].id # id]

\* prev.map((f) => (f.id === id ? data : f))
ReplaceById(prev, id, data) ==
  [i \in 1..Len(prev) |-> IF prev[i].id = id THEN data ELSE prev[i]]

\* prev.filter((f) => f.id !== id)
RemoveById(prev, id) == SelectSeq(prev, LAMBDA f : f.id # id)

\* prev.filter((s) => s.word !== word)
RemoveByWord(prev, word) == SelectSeq(prev, LAMBDA s : s.word # word)

\* ------------------------------------------------------------------- Init
PA == [id |-> 1, word |-> <<"w", "1">>, definition |-> <<"d", "1">>, exampleSentence |-> <<"e", "1">>,
       createdAt |-> 0, lastReviewedAt |-> 0, dueDate |-> DayMs, interval |-> One]
PB == [id |-> 2, word |-> <<"w", "2">>, definition |-> <<"d", "2">>, createdAt |-> 0,
       dueDate |-> 0, interval |-> Zero]
PC == [id |-> 3, word |-> <<"w", "3">>, definition |-> <<"d", "3">>, createdAt |-> 0]
Presets == <<PA, PB, PC>>

\* The namespace holding the first n preset cards, each under its id
StoreOf(n) == [k \in 1..n |-> JSONstringify(Presets[k])]

InitStores == {StoreOf(n) : n \in 0..Len(Presets)}

\* The identifiers crypto.randomUUID() may return: a random key stands
\* anywhere among the keys already stored.  There are MaxEvents of them for
\* each place among the preset keys "1", "2" and "3": "00", "01" before them
\* all, "10", "11" between "1" and "2", "20", "21" between "2" and "3", and
\* "40", "41" after them all.
FreshIds == {10 * g + j : g \in {10, 1, 2, 4}, j \in 0..(MaxEvents - 1)}

\* An id that no card has: crypto.randomUUID() never hands it out.
UnusedId == 9

\* What the suggestions endpoint answers with
Suggestions == <<[word |-> <<"w", "5">>, definition |-> <<"d", "5">>]>>

Pages == {"/", "/add", "/suggest"}

SchedBase == [id |-> 1, word |-> <<"w", "1">>, definition |-> <<"d", "1">>, createdAt |-> 0]

SchedStart(c) == [prev |-> c, cur |-> c, twin |-> c, success |-> FALSE,
                  steps |-> 0, now |-> 0, trail |-> <<>>]

NoCall == [handler |-> "none"]

\* The text '' of a field or of the form's error
NoText == <<>>

\* AddWordForm as its useState calls leave it when it mounts; gen is the tag
\* of the generateDefinition call it awaits, 0 when loadingDefinition is
\* false.
FormInit == [word |-> NoText, definition |-> NoText, exampleSentence |-> NoText,
             error |-> NoText, gen |-> 0]

\* No handler is called directly and the scheduler harness is idle.
HarnessIdle == direct' = NoCall /\ UNCHANGED sched

\* The state of App outside the card list, as its useState calls leave it,
\* on the "/" route.
AsideInit ==
  /\ suggestedWords = <<>>
  /\ loadingSuggestions = FALSE
  /\ addingSuggestionWord = Null
  /\ isReadingAloud = FALSE
  /\ page = "/"
  /\ form = FormInit

MainInit ==
  /\ store \in InitStores
  /\ issuedIds = {}
  /\ clock = 0
  /\ flashcards = <<>>
  /\ currentFlashcardIndex = 0
  /\ error = Null
  /\ loading = TRUE
  /\ AsideInit
  /\ mounted = FALSE
  /\ inflight = {}
  /\ nEvents = 0

\* A session whose initial load has completed: the list is the sorted
\* listing of the namespace and nothing is in flight.
LoadedInit ==
  /\ store \in InitStores
  /\ issuedIds = {}
  /\ clock = 0
  /\ flashcards = sortByDueDate(workerGet(store, FALSE).body)
  /\ currentFlashcardIndex = 0
  /\ error = Null
  /\ loading = FALSE
  /\ AsideInit
  /\ mounted = TRUE
  /\ inflight = {}
  /\ nEvents = 0

Init == (MainInit \/ LoadedInit) /\ direct = NoCall /\ sched = SchedStart(SchedBase)

\* ------------------------------------------------------------------ render
\* The "/" route renders FlashcardCard with flashcards[currentFlashcardIndex]
\* once loading is false and the list is not empty.
CardRoute == page = "/" /\ ~loading /\ Len(flashcards) # 0

\* FlashcardCard reads flashcard.id of undefined when the cursor is not an
\* index of the list: the render throws, App has no error boundary, and
\* React unmounts the whole tree.  Nothing changes the state of App
\* afterwards, so the condition holds for the rest of the session.
RenderThrows ==
  /\ CardRoute
  /\ currentFlashcardIndex \notin 0..(Len(flashcards) - 1)

\* App is on the screen: its mount effects have run and no render has thrown.
Alive == mounted /\ ~RenderThrows

CardShown == Alive /\ CardRoute

currentFlashcard == flashcards[currentFlashcardIndex + 1]

\* ---------------------------------------------------------------- handlers
\* Date.now(): the clock does not go back, and is observed only when read.
ClockReads(from) == {from, from + 1}

CanIssue == Alive /\ nEvents < MaxEvents

\* A tag telling apart the calls in flight
FreeSlot == CHOOSE n \in 1..(Cardinality(inflight) + 1) :
              /\ \A op \in inflight : op.n # n
              /\ \A m \in 1..(n - 1) : \E op \in inflight : op.n = m

\* The mount effect: fetchFlashcards up to its await
fetchFlashcards ==
  /\ ~mounted
  /\ mounted' = TRUE
  /\ loading' = TRUE
  /\ error' = Null
  /\ nEvents' = nEvents + 1
  /\ inflight' = inflight \cup {[n |-> FreeSlot, kind |-> "list", stage |-> "req"]}
  /\ UNCHANGED <<kvVars, flashcards, currentFlashcardIndex, asideVars>>
  /\ HarnessIdle

\* handleAddFlashcard up to its await; caller is the handler that awaits
\* the promise it returns.
handleAddFlashcard(newFlashcardData, caller) ==
  /\ CanIssue
  /\ error' = Null
  /\ nEvents' = nEvents + 1
  /\ inflight' = inflight \cup {[n |-> FreeSlot, kind |-> "add", stage |-> "req",
                                 body |-> newFlashcardData, caller |-> caller]}
  /\ UNCHANGED <<kvVars, flashcards, currentFlashcardIndex, loading, mounted,
                 isReadingAloud, page>>

\* handleAddSuggestedWord up to its await of handleAddFlashcard
handleAddSuggestedWord(suggestion) ==
  /\ addingSuggestionWord' = <<suggestion.word>>
  /\ handleAddFlashcard(suggestion, "handleAddSuggestedWord")
  /\ UNCHANGED <<suggestedWords, loadingSuggestions, form>>

\* handleDismissSuggestion
handleDismissSuggestion(word) ==
  /\ suggestedWords' = RemoveByWord(suggestedWords, word)
  /\ UNCHANGED <<kvVars, appVars, loadingSuggestions, addingSuggestionWord,
                 isReadingAloud, page, form, mounted, inflight, nEvents>>

\* fetchSuggestions up to its await
fetchSuggestions ==
  /\ CanIssue
  /\ loadingSuggestions' = TRUE
  /\ error' = Null
  /\ suggestedWords' = <<>>
  /\ nEvents' = nEvents + 1
  /\ inflight' = inflight \cup {[n |-> FreeSlot, kind |-> "suggest", stage |-> "req"]}
  /\ UNCHANGED <<kvVars, flashcards, currentFlashcardIndex, loading,
                 addingSuggestionWord, isReadingAloud, page, form, mounted>>

\* handleReviewFlashcard when flashcards.find returns undefined
ReviewAbsent_clearsError(id) ==
  /\ Alive
  /\ ~HasId(flashcards, id)
  /\ error' = Null
  /\ UNCHANGED <<kvVars, flashcards, currentFlashcardIndex, loading, asideVars,
                 mounted, inflight, nEvents>>

ReviewAbsent(id) ==
  /\ Alive
  /\ ~HasId(flashcards, id)
  /\ UNCHANGED <<kvVars, flashcards, currentFlashcardIndex, error, loading,
                 asideVars, mounted, inflight, nEvents>>

\* handleReviewFlashcard up to its await, for a card of the list.  The
\* closure keeps flashcards.length of the render the handler belongs to.
ReviewIssue_optimistic(id, success) ==
  /\ CanIssue
  /\ HasId(flashcards, id)
  /\ \E t1 \in ClockReads(clock) : \E t2 \in ClockReads(t1) :
       LET updatedFlashcard ==
             calculateNextDueDate(FindById(flashcards, id), success, t1, t2)
       IN /\ nEvents + 1 + (t2 - clock) <= MaxEvents
          /\ nEvents' = nEvents + 1 + (t2 - clock)
          /\ clock' = t2
          /\ flashcards' = ReplaceById(flashcards, id, updatedFlashcard)
          /\ inflight' = inflight \cup
               {[n |-> FreeSlot, kind |-> "update", stage |-> "req", id |-> id,
                 body |-> updatedFlashcard, len |-> Len(flashcards)]}
  /\ error' = Null
  /\ UNCHANGED <<store, issuedIds, currentFlashcardIndex, loading, asideVars,
                 mounted>>

ReviewIssue(id, success) ==
  /\ CanIssue
  /\ HasId(flashcards, id)
  /\ \E t1 \in ClockReads(clock) : \E t2 \in ClockReads(t1) :
       LET updatedFlashcard ==
             calculateNextDueDate(FindById(flashcards, id), success, t1, t2)
       IN /\ nEvents + 1 + (t2 - clock) <= MaxEvents
          /\ nEvents' = nEvents + 1 + (t2 - clock)
          /\ clock' = t2
          /\ inflight' = inflight \cup
               {[n |-> FreeSlot, kind |-> "update", stage |-> "req", id |-> id,
                 body |-> updatedFlashcard, len |-> Len(flashcards)]}
  /\ error' = Null
  /\ UNCHANGED <<store, issuedIds, flashcards, currentFlashcardIndex, loading,
                 asideVars, mounted>>

handleReviewFlashcard(id, success) ==
  \/ ReviewAbsent(id)
  \/ ReviewIssue(id, success)

\* handleDeleteFlashcard up to its await.  The closure keeps
\* flashcards.length and currentFlashcardIndex of its render.
handleDeleteFlashcard(id) ==
  /\ CanIssue
  /\ error' = Null
  /\ nEvents' = nEvents + 1
  /\ inflight' = inflight \cup
       {[n |-> FreeSlot, kind |-> "delete", stage |-> "req", id |-> id,
         len |-> Len(flashcards), idx |-> currentFlashcardIndex]}
  /\ UNCHANGED <<kvVars, flashcards, currentFlashcardIndex, loading, asideVars,
                 mounted>>

\* NaN is kept as a number that no sum of an index, a length and -1
\* reaches; a sum or a remainder of NaN is NaN, and so is a remainder by 0.
NaN == 0 - 2147483647
JsAdd(a, b) == IF a = NaN THEN NaN ELSE a + b
JsMod(a, n) == IF a = NaN \/ n = 0 THEN NaN ELSE a % n

\* (prevIndex) => (prevIndex + 1) % flashcards.length
handleNextFlashcard ==
  /\ currentFlashcardIndex' =
       JsMod(JsAdd(currentFlashcardIndex, 1), Len(flashcards))
  /\ UNCHANGED <<kvVars, flashcards, error, loading, asideVars, mounted,
                 inflight, nEvents>>

\* (prevIndex) => (prevIndex - 1 + flashcards.length) % flashcards.length
handlePreviousFlashcard ==
  /\ currentFlashcardIndex' =
       JsMod(JsAdd(JsAdd(currentFlashcardIndex, 0 - 1), Len(flashcards)),
             Len(flashcards))
  /\ UNCHANGED <<kvVars, flashcards, error, loading, asideVars, mounted,
                 inflight, nEvents>>

\* handleReadAloud up to its await.  audioContextRef.current is set by a
\* mount effect and cleared when App unmounts.
handleReadAloud ==
  IF ~mounted
  THEN /\ error' = <<"Audio context not available.">>
       /\ UNCHANGED <<kvVars, flashcards, currentFlashcardIndex, loading,
                      asideVars, mounted, inflight, nEvents>>
  ELSE /\ nEvents < MaxEvents
       /\ isReadingAloud' = TRUE
       /\ error' = Null
       /\ nEvents' = nEvents + 1
       /\ inflight' = inflight \cup
            {[n |-> FreeSlot, kind |-> "speech", stage |-> "req"]}
       /\ UNCHANGED <<kvVars, flashcards, currentFlashcardIndex, loading,
                      suggestVars, page, form, mounted>>

\* ------------------------------------------------------------------ the UI
\* The links of Navbar, and the button of the empty list that leads to /add.
\* AddWordForm is mounted on /add only: leaving the route discards its state
\* and entering it starts from the initial one.
navigate(to) ==
  /\ Alive
  /\ to # page
  /\ page' = to
  /\ form' = FormInit
  /\ UNCHANGED <<kvVars, appVars, suggestVars, isReadingAloud, mounted, inflight,
                 nEvents>>
  /\ HarnessIdle

clickLink == \E to \in Pages : navigate(to)

\* The Get Suggestions button, disabled while loadingSuggestions
clickGetSuggestions ==
  /\ page = "/suggest"
  /\ ~loadingSuggestions
  /\ fetchSuggestions
  /\ HarnessIdle

\* WordSuggestionCard's Add to Flashcards button, disabled while isAdding
clickAddSuggestion ==
  /\ page = "/suggest"
  /\ \E i \in 1..Len(suggestedWords) :
       /\ addingSuggestionWord # <<suggestedWords[i].word>>
       /\ handleAddSuggestedWord(suggestedWords[i])
  /\ HarnessIdle

\* WordSuggestionCard's Dismiss button, disabled while isAdding
clickDismissSuggestion ==
  /\ Alive
  /\ page = "/suggest"
  /\ \E i \in 1..Len(suggestedWords) :
       /\ addingSuggestionWord # <<suggestedWords[i].word>>
       /\ handleDismissSuggestion(suggestedWords[i].word)
  /\ HarnessIdle

\* FlashcardCard's Hard and Easy buttons: onReview(flashcard.id, success)
handleReview ==
  /\ CardShown
  /\ \E success \in BOOLEAN : handleReviewFlashcard(currentFlashcard.id, success)
  /\ HarnessIdle

\* FlashcardCard's Delete button: onDelete(flashcard.id)
clickDelete ==
  /\ CardShown
  /\ handleDeleteFlashcard(currentFlashcard.id)
  /\ HarnessIdle

\* FlashcardCard's read-aloud button, disabled while isReadingAloud:
\* handleReadAloudClick calls onSetError(null), then onReadAloud.
handleReadAloudClick ==
  /\ CardShown
  /\ ~isReadingAloud
  /\ handleReadAloud
  /\ HarnessIdle

\* The Next button, disabled when flashcards.length <= 1 || isReadingAloud
clickNext ==
  /\ CardShown
  /\ ~(Len(flashcards) <= 1 \/ isReadingAloud)
  /\ handleNextFlashcard
  /\ HarnessIdle

\* The Previous button, disabled when flashcards.length <= 1 || isReadingAloud
clickPrevious ==
  /\ CardShown
  /\ ~(Len(flashcards) <= 1 \/ isReadingAloud)
  /\ handlePreviousFlashcard
  /\ HarnessIdle

\* The close icon of the error banner: setError(null)
dismissError ==
  /\ Alive
  /\ error # Null
  /\ error' = Null
  /\ UNCHANGED <<kvVars, flashcards, currentFlashcardIndex, loading, asideVars,
                 mounted, inflight, nEvents>>
  /\ HarnessIdle

\* source.onended: the audio started by handleReadAloud has played to its end.
AudioPlaying == isReadingAloud /\ \A op \in inflight : op.kind # "speech"

audioEnded ==
  /\ Alive
  /\ AudioPlaying
  /\ isReadingAloud' = FALSE
  /\ UNCHANGED <<kvVars, appVars, suggestVars, page, form, mounted, inflight,
                 nEvents>>
  /\ HarnessIdle


\* -------------------------------------------------------------- AddWordForm
\* The texts typed into the form are sequences of characters.
WhiteSpace == {" ", "\t", "\n"}

\* String.prototype.trim
RECURSIVE TrimStart(_)
TrimStart(s) ==
  IF s # <<>> /\ Head(s) \in WhiteSpace THEN TrimStart(Tail(s)) ELSE s

RECURSIVE TrimEnd(_)
TrimEnd(s) ==
  IF s # <<>> /\ s[Len(s)] \in WhiteSpace
  THEN TrimEnd(SubSeq(s, 1, Len(s) - 1)) ELSE s

Trim(s) == TrimEnd(TrimStart(s))

Required == <<"Word and Definition are required.">>

\* A word or a definition as the user types it, spaces around it
Typed == <<" ", "a", " ">>

\* What the user may have typed into Word or Definition
FormTexts == {<<>>, <<" ", "\t", "\n">>, Typed}

\* What the user may have typed into Example Sentence
FormExamples == {<<>>, <<"e">>}

\* The form is on the screen
FormShown == Alive /\ page = "/add"

\* Everything but the form's own state
aroundForm == <<store, issuedIds, clock, flashcards, currentFlashcardIndex, error,
                loading, suggestedWords, loadingSuggestions, addingSuggestionWord,
                isReadingAloud, page, mounted, inflight, nEvents>>

\* onChange of Word: setWord(e.target.value), setError('')
onChangeWord(text) ==
  /\ FormShown
  /\ text # form.word
  /\ form' = [form EXCEPT !.word = text, !.error = NoText]
  /\ UNCHANGED aroundForm
  /\ HarnessIdle

\* onChange of Definition: setDefinition(e.target.value), setError('')
onChangeDefinition(text) ==
  /\ FormShown
  /\ text # form.definition
  /\ form' = [form EXCEPT !.definition = text, !.error = NoText]
  /\ UNCHANGED aroundForm
  /\ HarnessIdle

\* The user changes Word or Definition to any of the texts.
editWord == \E text \in FormTexts : onChangeWord(text)

editDefinition == \E text \in FormTexts : onChangeDefinition(text)

\* The user fills Word or Definition in with a word or a definition.
typeWord == onChangeWord(Typed)

typeDefinition == onChangeDefinition(Typed)

\* onChange of Example Sentence: setExampleSentence
editExampleSentence ==
  /\ FormShown
  /\ \E text \in FormExamples \ {form.exampleSentence} :
       form' = [form EXCEPT !.exampleSentence = text]
  /\ UNCHANGED aroundForm
  /\ HarnessIdle

\* handleGenerateDefinition up to its await
handleGenerateDefinition ==
  IF Trim(form.word) = <<>>
  THEN /\ form' = [form EXCEPT
                     !.error = <<"Please enter a word to generate a definition.">>]
       /\ UNCHANGED aroundForm
  ELSE /\ CanIssue
       /\ form' = [form EXCEPT !.gen = FreeSlot, !.error = NoText]
       /\ nEvents' = nEvents + 1
       /\ inflight' = inflight \cup
            {[n |-> FreeSlot, kind |-> "define", stage |-> "req",
              body |-> [word |-> form.word]]}
       /\ UNCHANGED <<kvVars, appVars, suggestVars, isReadingAloud, page, mounted>>

\* The Generate Definition with AI button, disabled when
\* loadingDefinition || !word.trim()
clickGenerate ==
  /\ FormShown
  /\ ~(form.gen # 0 \/ Trim(form.word) = <<>>)
  /\ handleGenerateDefinition
  /\ HarnessIdle

handleSubmit_noTrim(word, definition, exampleSentence) ==
  IF word = <<>> \/ definition = <<>>
  THEN /\ form' = [form EXCEPT !.error = Required]
       /\ UNCHANGED aroundForm
  ELSE /\ form' = [form EXCEPT !.error = NoText]
       /\ handleAddFlashcard([word |-> word, definition |-> definition,
                              exampleSentence |-> exampleSentence], "handleSubmit")
       /\ UNCHANGED suggestVars

\* handleSubmit of AddWordForm up to its await of onAdd, for what the fields
\* hold
handleSubmit(word, definition, exampleSentence) ==
  IF Trim(word) = <<>> \/ Trim(definition) = <<>>
  THEN /\ form' = [form EXCEPT !.error = Required]
       /\ UNCHANGED aroundForm
  ELSE /\ form' = [form EXCEPT !.error = NoText]
       /\ handleAddFlashcard([word |-> word, definition |-> definition,
                              exampleSentence |-> exampleSentence], "handleSubmit")
       /\ UNCHANGED suggestVars

\* The browser's check of a field marked required, made before the submit
\* event is dispatched: a field whose value is the empty string is missing,
\* one holding white space is not.
ValueMissing(text) == text = <<>>

\* The browser stopped the submit: no submit event, handleSubmit does not
\* run, and the form's error text stays what it was (an edit of Word or
\* Definition clears it, a failed generation writes it).
submitBlocked == UNCHANGED mainVars

\* A press of the form's Add Flashcard button, disabled while
\* loadingDefinition; stopped tells whether the browser stopped the submit.
\* Word is an <input required> (Input hands its props to the element).
\* Definition is a <Textarea required>, a component that is not among the
\* sources: whether the attribute reaches the element is not known, and an
\* empty Definition is either stopped by the browser or handed to
\* handleSubmit.
formPress(stopped) ==
  /\ FormShown
  /\ form.gen = 0
  /\ ValueMissing(form.word) => stopped
  /\ stopped => (ValueMissing(form.word) \/ ValueMissing(form.definition))
  /\ IF stopped THEN submitBlocked
     ELSE handleSubmit(form.word, form.definition, form.exampleSentence)

\* The button pressed in a session
formSubmit == \E stopped \in BOOLEAN : formPress(stopped) /\ HarnessIdle

\* The button pressed in the form harness: direct records what the fields
\* held, whether handleSubmit ran, and the form's error text after the
\* press.
pressSubmit ==
  \E stopped \in BOOLEAN :
    /\ formPress(stopped)
    /\ direct' = [handler |-> IF stopped THEN "submitBlocked" ELSE "handleSubmit",
                  word |-> form.word, definition |-> form.definition,
                  error |-> form'.error]
    /\ UNCHANGED sched

\* ------------------------------------------------------------ worker steps
\* The call once fetch has settled with outcome
Settled(op, outcome) ==
  [f \in (DOMAIN op \ {"keys", "got", "card"}) \cup {"outcome"} |->
     IF f = "outcome" THEN outcome ELSE IF f = "stage" THEN "resp" ELSE op[f]]

\* KVNamespace.put(key, value)
KvPut(kv, key, value) ==
  [k \in DOMAIN kv \cup {key} |-> IF k = key THEN value ELSE kv[k]]

\* KVNamespace.delete(key)
KvDelete(kv, key) == [k \in DOMAIN kv \ {key} |-> kv[k]]

\* The call op goes on as next; the client's state is not touched.
Progress(op, next) ==
  /\ inflight' = (inflight \ {op}) \cup {next}
  /\ UNCHANGED <<appVars, asideVars, mounted>>
  /\ HarnessIdle

\* A request whose fetch has rejected while the worker holds it: the client
\* has its rejection, and the worker goes on serving the request under a
\* tag below 0.
Orphan(op) ==
  [op EXCEPT !.n = 0 - (CHOOSE k \in 1..(Cardinality(inflight) + 1) :
                          /\ \A o \in inflight : o.n # 0 - k
                          /\ \A m \in 1..(k - 1) : \E o \in inflight : o.n = 0 - m)]

\* The worker's response goes to the call that awaits it; the response to
\* a request whose fetch has rejected goes nowhere.
Answer(op, outcome) ==
  IF op.n < 0
  THEN /\ inflight' = inflight \ {op}
       /\ UNCHANGED <<appVars, asideVars, mounted>>
       /\ HarnessIdle
  ELSE Progress(op, Settled(op, outcome))

KvError == createErrorResponse(<<"Failed to retrieve flashcards:", "KV error">>, 500)

\* The elements of a sequence
Range(s) == {s[i] : i \in 1..Len(s)}

\* GET /api/flashcards up to the end of its await of list(): the keys are
\* those of this moment, and one get is started for each of them.
workerListKeys(op) ==
  /\ op.kind = "list"
  /\ op.stage = "req"
  /\ \/ Answer(op, KvError)
     \/ IF DOMAIN store = {}
        THEN Answer(op, workerListing(<<>>, <<>>))
        ELSE Progress(op, [n |-> op.n, kind |-> "list", stage |-> "listed",
                           keys |-> KeysInOrder(DOMAIN store), got |-> <<>>])
  /\ UNCHANGED <<kvVars, nEvents>>

\* GET /api/flashcards: one get(key.name) resolves with what the namespace
\* holds at this moment, other requests having been served since list().
\* A value that does not parse rejects Promise.all; the last value to arrive
\* completes the response.
workerListGet(op) ==
  /\ op.kind = "list"
  /\ op.stage = "listed"
  /\ \E key \in Range(op.keys) \ DOMAIN op.got :
       \/ Answer(op, KvError)
       \/ LET value == KvGet(store, key)
              got == KvPut(op.got, key, value)
          IN IF ParseFails(value)
             THEN Answer(op, createErrorResponse(
                    <<"Failed to retrieve flashcards:", "Unexpected token">>, 500))
             ELSE IF DOMAIN got = Range(op.keys)
             THEN Answer(op, workerListing(op.keys, got))
             ELSE Progress(op, [op EXCEPT !.got = got])
  /\ UNCHANGED <<kvVars, nEvents>>

\* POST /api/flashcards up to its await of put(): the worker draws the id,
\* reads the clock for createdAt and again for dueDate, and starts the put
\* of the card it has built.
workerPostBuild(op) ==
  /\ op.kind = "add"
  /\ op.stage = "req"
  /\ \E id \in FreshIds \ issuedIds :
     \E createdAt \in ClockReads(clock) : \E dueDate \in ClockReads(createdAt) :
       LET flashcard == workerNewCard(op.body, id, createdAt, dueDate)
       IN /\ nEvents + (dueDate - clock) <= MaxEvents
          /\ nEvents' = nEvents + (dueDate - clock)
          /\ clock' = dueDate
          /\ issuedIds' = issuedIds \cup {id}
          /\ store' = store
          /\ Progress(op, [f \in DOMAIN op \cup {"card"} |->
                             IF f = "card" THEN flashcard
                             ELSE IF f = "stage" THEN "built" ELSE op[f]])

\* POST /api/flashcards after its await of put(), other requests having been
\* served since the card was built: the card is stored and the response
\* carries it, or put() throws and the response is 400.
workerPostPut(op) ==
  /\ op.kind = "add"
  /\ op.stage = "built"
  /\ \/ /\ store' = KvPut(store, op.card.id, JSONstringify(op.card))
        /\ Answer(op, createJsonResponse(op.card, 201))
     \/ /\ store' = store
        /\ Answer(op, createErrorResponse(
                        <<"Failed to add flashcard:", "e.message">>, 400))
  /\ UNCHANGED <<issuedIds, clock, nEvents>>

workerPut_noIdCheck(op) ==
  /\ op.kind = "update"
  /\ op.stage = "req"
  /\ \/ /\ store' = KvPut(store, op.id, JSONstringify(op.body))
        /\ Answer(op, createJsonResponse(op.body, 200))
     \/ /\ store' = store
        /\ Answer(op, createErrorResponse(
                        <<"Failed to update flashcard:", "e.message">>, 400))
  /\ UNCHANGED <<issuedIds, clock, nEvents>>

\* PUT /api/flashcards/{id}
workerPut(op) ==
  /\ op.kind = "update"
  /\ op.stage = "req"
  /\ IF op.body.id # op.id
     THEN /\ store' = store
          /\ Answer(op, createErrorResponse(
                          <<"Flashcard ID in path and body do not match.">>, 400))
     ELSE \/ /\ store' = KvPut(store, op.id, JSONstringify(op.body))
             /\ Answer(op, createJsonResponse(op.body, 200))
          \/ /\ store' = store
             /\ Answer(op, createErrorResponse(
                             <<"Failed to update flashcard:", "e.message">>, 400))
  /\ UNCHANGED <<issuedIds, clock, nEvents>>

\* DELETE /api/flashcards/{id}
workerDelete(op) ==
  /\ op.kind = "delete"
  /\ op.stage = "req"
  /\ \/ /\ store' = KvDelete(store, op.id)
        /\ Answer(op, [status |-> 204, body |-> Null])
     \/ /\ store' = store
        /\ Answer(op, createErrorResponse(
                        <<"Failed to delete flashcard:", "e.message">>, 500))
  /\ UNCHANGED <<issuedIds, clock, nEvents>>

\* What the text of Gemini parses to: a definition with or without an
\* example, or null
Definitions ==
  {[word |-> "w", definition |-> <<"d">>, exampleSentence |-> <<"e">>],
   [word |-> "w", definition |-> <<"d">>],
   Null}

\* The answer of every /api/gemini endpoint when env.API_KEY is not set
NoApiKey ==
  createErrorResponse(
    <<"Gemini API Key is not configured in worker environment variables (API_KEY).">>,
    500)

\* What POST /api/gemini/definition, POST /api/gemini/suggestions and
\* POST /api/gemini/speech answer with: the parsed text of Gemini, or the
\* 500 of the endpoint's catch clause, of a response without audio, or of
\* a worker without API key.
GeminiOutcomes(kind) ==
  {NoApiKey} \cup
  CASE kind = "define" ->
         {createJsonResponse(d, 200) : d \in Definitions} \cup
         {createErrorResponse(<<"Gemini definition error:", "e.message">>, 500)}
    [] kind = "suggest" ->
         {createJsonResponse([suggestions |-> Suggestions], 200),
          createErrorResponse(<<"Gemini suggestions error:", "e.message">>, 500)}
    [] kind = "speech" ->
         {createJsonResponse([data |-> "base64Audio"], 200),
          createErrorResponse(<<"No audio data received from Gemini TTS.">>, 500),
          createErrorResponse(<<"Gemini speech error:", "e.message">>, 500)}

\* POST /api/gemini/definition, /api/gemini/suggestions and /api/gemini/speech
workerGemini(op) ==
  /\ op.kind \in {"define", "suggest", "speech"}
  /\ op.stage = "req"
  /\ \E outcome \in GeminiOutcomes(op.kind) : Answer(op, outcome)
  /\ UNCHANGED <<kvVars, nEvents>>

workerFetch ==
  \E op \in inflight :
    \/ workerListKeys(op)
    \/ workerListGet(op)
    \/ workerPostBuild(op)
    \/ workerPostPut(op)
    \/ workerPut(op)
    \/ workerDelete(op)
    \/ workerGemini(op)

\* The requests that change the namespace
Writes == {"add", "update", "delete"}

\* fetch rejects, whatever the worker is doing: the request never reaches
\* the worker, or it has reached the worker, which serves it all the same,
\* or its response is lost.  A POST whose put() has started has reached the
\* worker.
NetworkFailure ==
  \E op \in inflight :
    /\ op.n > 0
    /\ IF op.stage = "resp" THEN ~IsRejected(op.outcome) ELSE TRUE
    /\ \/ /\ op.stage # "built"
          /\ inflight' = (inflight \ {op}) \cup {Settled(op, Rejected)}
       \/ /\ op.stage \in {"req", "built"}
          /\ op.kind \in Writes
          /\ inflight' = (inflight \ {op}) \cup {Settled(op, Rejected), Orphan(op)}
    /\ UNCHANGED <<kvVars, nEvents, appVars, asideVars, mounted>>
    /\ HarnessIdle

\* ------------------------------------------------------------ continuations
\* fetchFlashcards after its await
ListDone_clears(res) ==
  /\ IF res.success
     THEN /\ flashcards' = sortByDueDate(res.data)
          /\ error' = error
     ELSE /\ flashcards' = <<>>
          /\ error' = res.error
  /\ loading' = FALSE
  /\ UNCHANGED currentFlashcardIndex

ListDone_keepsLoadingOnFailure(res) ==
  /\ IF res.success
     THEN /\ flashcards' = sortByDueDate(res.data)
          /\ error' = error
          /\ loading' = FALSE
     ELSE /\ flashcards' = flashcards
          /\ error' = res.error
          /\ loading' = loading
  /\ UNCHANGED currentFlashcardIndex

ListDone(res) ==
  /\ IF res.success
     THEN /\ flashcards' = sortByDueDate(res.data)
          /\ error' = error
     ELSE /\ flashcards' = flashcards
          /\ error' = res.error
  /\ loading' = FALSE
  /\ UNCHANGED currentFlashcardIndex

\* handleAddFlashcard after its await
AddDone_dropsCard(res) ==
  /\ IF res.success
     THEN /\ flashcards' = sortByDueDate(flashcards)
          /\ error' = error
     ELSE /\ flashcards' = flashcards
          /\ error' = res.error
  /\ UNCHANGED <<currentFlashcardIndex, loading>>

AddDone(res) ==
  /\ IF res.success
     THEN /\ flashcards' = sortByDueDate(Append(flashcards, res.data))
          /\ error' = error
     ELSE /\ flashcards' = flashcards
          /\ error' = res.error
  /\ UNCHANGED <<currentFlashcardIndex, loading>>

\* The caller of handleAddFlashcard after its await, in the same turn of the
\* event loop: AddWordForm's handleSubmit calls onSuccess, which navigates
\* to "/", whatever the result; handleAddSuggestedWord takes the word off the
\* suggestions.  The form empties its fields before onSuccess, and is
\* unmounted by the navigation.
AfterAdd(op) ==
  IF op.caller = "handleSubmit"
  THEN /\ page' = "/"
       /\ form' = FormInit
       /\ UNCHANGED suggestVars
  ELSE /\ suggestedWords' = RemoveByWord(suggestedWords, op.body.word)
       /\ addingSuggestionWord' = Null
       /\ UNCHANGED <<loadingSuggestions, page, form>>

\* handleReviewFlashcard after its await; op.len is flashcards.length as the
\* closure captured it.
ReviewDone_appliesLocal(op, res) ==
  /\ IF res.success
     THEN /\ flashcards' = sortByDueDate(ReplaceById(flashcards, op.id, res.data))
          /\ currentFlashcardIndex' =
               IF op.len > 1 THEN JsMod(JsAdd(currentFlashcardIndex, 1), op.len)
               ELSE currentFlashcardIndex
          /\ error' = error
     ELSE /\ flashcards' = sortByDueDate(ReplaceById(flashcards, op.id, op.body))
          /\ currentFlashcardIndex' = currentFlashcardIndex
          /\ error' = res.error
  /\ UNCHANGED loading

ReviewDone_keepsOld(op, res) ==
  /\ flashcards' = flashcards
  /\ IF res.success
     THEN /\ currentFlashcardIndex' =
               IF op.len > 1 THEN JsMod(JsAdd(currentFlashcardIndex, 1), op.len)
               ELSE currentFlashcardIndex
          /\ error' = error
     ELSE /\ currentFlashcardIndex' = currentFlashcardIndex
          /\ error' = res.error
  /\ UNCHANGED loading

ReviewDone_upserts(op, res) ==
  /\ IF res.success
     THEN /\ flashcards' =
               sortByDueDate(IF HasId(flashcards, op.id)
                             THEN ReplaceById(flashcards, op.id, res.data)
                             ELSE Append(flashcards, res.data))
          /\ currentFlashcardIndex' =
               IF op.len > 1 THEN JsMod(JsAdd(currentFlashcardIndex, 1), op.len)
               ELSE currentFlashcardIndex
          /\ error' = error
     ELSE /\ flashcards' = flashcards
          /\ currentFlashcardIndex' = currentFlashcardIndex
          /\ error' = res.error
  /\ UNCHANGED loading

ReviewDone_noAdvance(op, res) ==
  /\ IF res.success
     THEN /\ flashcards' = sortByDueDate(ReplaceById(flashcards, op.id, res.data))
          /\ error' = error
     ELSE /\ flashcards' = flashcards
          /\ error' = res.error
  /\ UNCHANGED <<currentFlashcardIndex, loading>>

ReviewDone(op, res) ==
  /\ IF res.success
     THEN /\ flashcards' = sortByDueDate(ReplaceById(flashcards, op.id, res.data))
          /\ currentFlashcardIndex' =
               IF op.len > 1 THEN JsMod(JsAdd(currentFlashcardIndex, 1), op.len)
               ELSE currentFlashcardIndex
          /\ error' = error
     ELSE /\ flashcards' = flashcards
          /\ currentFlashcardIndex' = currentFlashcardIndex
          /\ error' = res.error
  /\ UNCHANGED loading

\* handleDeleteFlashcard after its await
DeleteDone_removesAnyway(op, res) ==
  /\ flashcards' = RemoveById(flashcards, op.id)
  /\ IF res.success
     THEN /\ currentFlashcardIndex' =
               IF op.idx >= op.len - 1 /\ op.len > 1 THEN 0
               ELSE currentFlashcardIndex
          /\ error' = error
     ELSE /\ currentFlashcardIndex' = currentFlashcardIndex
          /\ error' = res.error
  /\ UNCHANGED loading

DeleteDone_advances(op, res) ==
  /\ IF res.success
     THEN /\ flashcards' = RemoveById(flashcards, op.id)
          /\ currentFlashcardIndex' =
               IF op.len > 1 THEN JsMod(JsAdd(currentFlashcardIndex, 1), op.len)
               ELSE currentFlashcardIndex
          /\ error' = error
     ELSE /\ flashcards' = flashcards
          /\ currentFlashcardIndex' = currentFlashcardIndex
          /\ error' = res.error
  /\ UNCHANGED loading

\* handleDeleteFlashcard after its await; op.len and op.idx are the closure's
\* flashcards.length and currentFlashcardIndex.
DeleteDone(op, res) ==
  /\ IF res.success
     THEN /\ flashcards' = RemoveById(flashcards, op.id)
          /\ currentFlashcardIndex' =
               IF op.idx >= op.len - 1 /\ op.len > 1 THEN 0
               ELSE currentFlashcardIndex
          /\ error' = error
     ELSE /\ flashcards' = flashcards
          /\ currentFlashcardIndex' = currentFlashcardIndex
          /\ error' = res.error
  /\ UNCHANGED loading

\* fetchSuggestions after its await
SuggestDone(res) ==
  /\ IF res.success
     THEN /\ suggestedWords' = res.data.suggestions
          /\ error' = error
     ELSE /\ suggestedWords' = suggestedWords
          /\ error' = res.error
  /\ loadingSuggestions' = FALSE
  /\ UNCHANGED addingSuggestionWord

\* handleReadAloud after its await: the audio is decoded and started, and
\* isReadingAloud stays true until it ends; a failed call, or a decoding
\* that throws, sets the error and ends the reading.
SpeechDone(res) ==
  IF res.success
  THEN \/ /\ isReadingAloud' = TRUE
          /\ error' = error
       \/ /\ isReadingAloud' = FALSE
          /\ error' = <<"Read aloud error:", "e.message">>
  ELSE /\ isReadingAloud' = FALSE
       /\ error' = res.error

\* handleGenerateDefinition after its await.  The state setters of a form
\* that has been unmounted since do nothing; the form on the screen is the
\* one that issued the call when it awaits the call's tag.
GenerateDone(op, res) ==
  IF form.gen # op.n
  THEN UNCHANGED form
  ELSE IF res.success /\ DOMAIN res.data # {}
  THEN form' = [form EXCEPT
                  !.definition = res.data.definition,
                  !.exampleSentence = IF Has(res.data, "exampleSentence")
                                      THEN res.data.exampleSentence ELSE NoText,
                  !.gen = 0]
  ELSE form' = [form EXCEPT
                  !.error = IF Has(res, "error") THEN res.error
                            ELSE <<"Failed to generate definition. Please try again.">>,
                  !.gen = 0]

\* The ApiResponse a settled call hands to its handler
ResultOf(op) ==
  IF op.kind \in {"define", "suggest", "speech"}
  THEN GeminiResult(op.kind, op.outcome)
  ELSE ServiceResult(op.kind, op.outcome)

\* The handler resumes after its await.  Once a render has thrown, App is
\* unmounted and the state setters of a resumed handler do nothing.
Continue ==
  \E op \in inflight :
    /\ Alive
    /\ op.stage = "resp"
    /\ inflight' = inflight \ {op}
    /\ CASE op.kind = "list" ->
              ListDone(ResultOf(op)) /\ UNCHANGED asideVars
         [] op.kind = "add" ->
              AddDone(ResultOf(op)) /\ AfterAdd(op) /\ UNCHANGED isReadingAloud
         [] op.kind = "update" ->
              ReviewDone(op, ResultOf(op)) /\ UNCHANGED asideVars
         [] op.kind = "delete" ->
              DeleteDone(op, ResultOf(op)) /\ UNCHANGED asideVars
         [] op.kind = "suggest" ->
              /\ SuggestDone(ResultOf(op))
              /\ UNCHANGED <<flashcards, currentFlashcardIndex, loading,
                             isReadingAloud, page, form>>
         [] op.kind = "speech" ->
              /\ SpeechDone(ResultOf(op))
              /\ UNCHANGED <<flashcards, currentFlashcardIndex, loading,
                             suggestVars, page, form>>
         [] op.kind = "define" ->
              /\ GenerateDone(op, ResultOf(op))
              /\ UNCHANGED <<appVars, suggestVars, isReadingAloud, page>>
    /\ UNCHANGED <<kvVars, mounted, nEvents>>
    /\ HarnessIdle

Next ==
  \/ fetchFlashcards
  \/ clickLink
  \/ typeWord
  \/ typeDefinition
  \/ formSubmit
  \/ clickGetSuggestions
  \/ clickAddSuggestion
  \/ clickDismissSuggestion
  \/ handleReview
  \/ clickDelete
  \/ handleReadAloudClick
  \/ audioEnded
  \/ clickNext
  \/ clickPrevious
  \/ dismissError
  \/ workerFetch
  \/ NetworkFailure
  \/ Continue

Spec == Init /\ [][Next]_vars

\* ------------------------------------------------------------ calm harness
\* The sessions of the card list in which nothing fails: every call reaches
\* the worker, the KV store works, and every response comes back.
workerAnswersOk ==
  /\ workerFetch
  /\ \A r \in inflight' : r.stage = "resp" => ResponseOk(r.outcome)

CalmNext ==
  \/ fetchFlashcards
  \/ clickLink
  \/ typeWord
  \/ typeDefinition
  \/ formSubmit
  \/ handleReview
  \/ clickDelete
  \/ workerAnswersOk
  \/ Continue

CalmSpec == Init /\ [][CalmNext]_vars

\* ------------------------------------------------------------ solo harness
\* The sessions in which the user starts a store operation only when none
\* is in flight; Next and Previous may be pressed at any time.
soloAdd == inflight = {} /\ formSubmit
soloReview == inflight = {} /\ handleReview
soloDelete == inflight = {} /\ clickDelete

SoloNext ==
  \/ fetchFlashcards
  \/ clickLink
  \/ typeWord
  \/ typeDefinition
  \/ soloAdd
  \/ soloReview
  \/ soloDelete
  \/ clickNext
  \/ clickPrevious
  \/ workerFetch
  \/ NetworkFailure
  \/ Continue

SoloSpec == Init /\ [][SoloNext]_vars

\* ------------------------------------------------- number-range harness
\* flashcard.interval is a JavaScript number (binary64).  The intervals a
\* card created with interval 0 can take are 0, the powers of two
\* 2^MinExp .. 2^MaxExp, and Infinity; they are kept here by exponent.
ZeroDays == [kind |-> "zero"]
InfiniteDays == [kind |-> "inf"]
Pow2(k) == [kind |-> "pow", k |-> k]

nextExponent_flushesSubnormals(x, success) ==
  IF x.kind # "pow" THEN (IF success /\ x.kind = "zero" THEN Pow2(0) ELSE x)
  ELSE IF success
       THEN IF x.k < 0 THEN Pow2(0)
            ELSE IF x.k = MaxExp THEN InfiniteDays ELSE Pow2(x.k + 1)
       ELSE IF x.k <= MinExp + 52 THEN ZeroDays ELSE Pow2(x.k - 1)

\* newInterval of calculateNextDueDate on these values: Math.max(1, 2 * i)
\* is 1 up to i = 1/2, 2 * 2^MaxExp overflows to Infinity, 2^MinExp / 2
\* rounds to 0, and 0 / 2 = 0, Infinity / 2 = Infinity * 2 = Infinity.
nextExponent(x, success) ==
  IF x.kind # "pow" THEN (IF success /\ x.kind = "zero" THEN Pow2(0) ELSE x)
  ELSE IF success
       THEN IF x.k < 0 THEN Pow2(0)
            ELSE IF x.k = MaxExp THEN InfiniteDays ELSE Pow2(x.k + 1)
       ELSE IF x.k = MinExp THEN ZeroDays ELSE Pow2(x.k - 1)

\* The intervals the harness starts from: 0 and the powers of two next to
\* the ends of the range and next to 1 day.
FloatStarts ==
  {ZeroDays}
  \cup {Pow2(k) : k \in MinExp..(MinExp + FloatSpan)}
  \cup {Pow2(k) : k \in (0 - FloatSpan)..FloatSpan}
  \cup {Pow2(k) : k \in (MaxExp - FloatSpan)..MaxExp}

FloatInit ==
  /\ MainInit
  /\ store = StoreOf(0)
  /\ direct = NoCall
  /\ sched \in {[prev |-> x, cur |-> x, success |-> FALSE, steps |-> 0] :
                  x \in FloatStarts}

\* One review of the card the harness holds
FloatReview(success) ==
  /\ sched.steps < MaxSchedSteps
  /\ sched' = [prev |-> sched.cur,
               cur |-> nextExponent(sched.cur, success),
               success |-> success,
               steps |-> sched.steps + 1]
  /\ UNCHANGED <<mainVars, direct>>

FloatNext == \E success \in BOOLEAN : FloatReview(success)

FloatSpec == FloatInit /\ [][FloatNext]_vars

\* -------------------------------------------------------- interval harness
\* The interval a review computes, over the whole range of the numbers: a
\* card's interval is whatever number the store holds for it.
IntervalStarts ==
  {Zero, Infinity}
  \cup {[num |-> n, exp |-> e] : n \in {1, 3, 5, 7}, e \in MinExp..(MinExp + FloatSpan)}
  \cup {[num |-> n, exp |-> e] : n \in {1, 3}, e \in (0 - FloatSpan)..FloatSpan}
  \cup {[num |-> n, exp |-> e - BitLen(n) + 1] :
          n \in {1, 3, 5, 7}, e \in (MaxExp - FloatSpan)..MaxExp}

IntervalCards ==
  {SchedBase} \cup {Spread(SchedBase, [interval |-> i]) : i \in IntervalStarts}

IntervalInit ==
  /\ MainInit
  /\ store = StoreOf(0)
  /\ direct = NoCall
  /\ sched \in {[prev |-> c, cur |-> c, success |-> FALSE, steps |-> 0] :
                  c \in IntervalCards}

\* newInterval of calculateNextDueDate for the card the harness holds
IntervalReview(success) ==
  /\ sched.steps < MaxSchedSteps
  /\ sched' = [prev |-> sched.cur,
               cur |-> Spread(sched.cur,
                              [interval |->
                                 nextInterval(IntervalOrZero(sched.cur), success)]),
               success |-> success,
               steps |-> sched.steps + 1]
  /\ UNCHANGED <<mainVars, direct>>

IntervalNext == \E success \in BOOLEAN : IntervalReview(success)

IntervalSpec == IntervalInit /\ [][IntervalNext]_vars

\* ------------------------------------------------------------ form harness
\* AddWordForm with its fields edited, a definition generated, and the form
\* submitted with whatever the fields hold.
FormNext ==
  \/ fetchFlashcards
  \/ clickLink
  \/ editWord
  \/ editDefinition
  \/ editExampleSentence
  \/ clickGenerate
  \/ pressSubmit
  \/ workerFetch
  \/ NetworkFailure
  \/ Continue

\* The form is used beside a list of two cards, loaded or being loaded.
FormStart == Init /\ store = StoreOf(2)

FormSpec == FormStart /\ [][FormNext]_vars

\* ------------------------------------------------------------ load harness
\* The load at mount with adds beside it.  React runs the mount effect, fetch
\* settles (with a response or a rejection), and the event loop resumes a
\* handler whose await has settled: weak fairness of the three.
LoadNext ==
  \/ fetchFlashcards
  \/ clickLink
  \/ typeWord
  \/ typeDefinition
  \/ formSubmit
  \/ workerFetch
  \/ NetworkFailure
  \/ Continue

\* The session starts before the mount effect has run.
LoadStart == Init /\ ~mounted

LoadSpec ==
  /\ LoadStart
  /\ [][LoadNext]_vars
  /\ WF_vars(fetchFlashcards)
  /\ WF_vars(workerFetch)
  /\ WF_vars(Continue)

\* -------------------------------------------------------- scheduler harness
SchedIntervals == {Zero, Q(1, 4), Q(1, 2), One, Q(3, 2), Q(2, 1), Q(3, 1)}

SchedInputs ==
  {SchedBase, Spread(SchedBase, [exampleSentence |-> <<"e", "1">>])}
  \cup {Spread(SchedBase, [interval |-> i, dueDate |-> 0]) : i \in SchedIntervals}
  \cup {Spread(SchedBase, [interval |-> i, dueDate |-> DaysToMs(i),
                           lastReviewedAt |-> 0, exampleSentence |-> <<"e", "1">>]) :
          i \in SchedIntervals}

SchedInit ==
  /\ MainInit
  /\ store = StoreOf(0)
  /\ direct = NoCall
  /\ sched \in {SchedStart(c) : c \in SchedInputs}

\* One review of the card the harness holds.  cur is the result of the call;
\* twin is the result of a second call with the same card and flag whose
\* first clock read is the same instant; trail keeps, for each review, the
\* card it was given, the flag, the first clock read and the result.
SchedReview(success) ==
  /\ sched.steps < MaxSchedSteps
  /\ MathMax(nextInterval(IntervalOrZero(sched.cur), success), Q(MaxDays, 1))
       = Q(MaxDays, 1)
  /\ WholeMs(nextInterval(IntervalOrZero(sched.cur), success))
  /\ \E t1 \in ClockReads(sched.now) : \E t2, u2 \in ClockReads(t1) :
       /\ t2 <= MaxClock
       /\ u2 <= MaxClock
       /\ LET updated == calculateNextDueDate(sched.cur, success, t1, t2)
          IN sched' = [prev |-> sched.cur,
                       cur |-> updated,
                       twin |-> calculateNextDueDate(sched.cur, success, t1, u2),
                       success |-> success,
                       steps |-> sched.steps + 1,
                       now |-> t2,
                       trail |-> Append(sched.trail,
                                        [from |-> sched.cur, success |-> success,
                                         read |-> t1, card |-> updated])]
  /\ UNCHANGED <<mainVars, direct>>

SchedNext == \E success \in BOOLEAN : SchedReview(success)

SchedSpec == SchedInit /\ [][SchedNext]_vars

\* ---------------------------------------------------------- handler harness
\* handleReviewFlashcard called with an id that is not in the list, which the
\* buttons of FlashcardCard never do.
directReviewAbsent ==
  /\ \E id \in 1..Len(Presets) \cup {UnusedId} : \E success \in BOOLEAN :
       /\ ~HasId(flashcards, id)
       /\ handleReviewFlashcard(id, success)
  /\ direct' = [handler |-> "handleReviewFlashcard", found |-> FALSE]
  /\ UNCHANGED sched

\* handleDeleteFlashcard called with an id that neither the list nor the
\* namespace holds
directDeleteAbsent ==
  /\ ~HasId(flashcards, UnusedId)
  /\ UnusedId \notin DOMAIN store
  /\ handleDeleteFlashcard(UnusedId)
  /\ direct' = [handler |-> "handleDeleteFlashcard", found |-> FALSE]
  /\ UNCHANGED sched

\* The session with the direct calls added; the cursor moves by review and
\* delete only.
DirectNext ==
  \/ fetchFlashcards
  \/ clickLink
  \/ typeWord
  \/ typeDefinition
  \/ formSubmit
  \/ handleReview
  \/ clickDelete
  \/ dismissError
  \/ workerFetch
  \/ NetworkFailure
  \/ Continue
  \/ directReviewAbsent
  \/ directDeleteAbsent

DirectSpec == Init /\ [][DirectNext]_vars

\* ------------------------------------------------------- navigation harness
\* The Next button pressed, enabled or not: a disabled button does nothing.
pressNext ==
  /\ CardShown
  /\ IF Len(flashcards) <= 1 \/ isReadingAloud
     THEN UNCHANGED mainVars
     ELSE handleNextFlashcard
  /\ direct' = [handler |-> "handleNextFlashcard", reading |-> isReadingAloud]
  /\ UNCHANGED sched

\* The Previous button pressed, enabled or not
pressPrevious ==
  /\ CardShown
  /\ IF Len(flashcards) <= 1 \/ isReadingAloud
     THEN UNCHANGED mainVars
     ELSE handlePreviousFlashcard
  /\ direct' = [handler |-> "handlePreviousFlashcard", reading |-> isReadingAloud]
  /\ UNCHANGED sched

\* handleNextFlashcard called while the buttons cannot start it: the list is
\* empty and no button is on the page, or it has one card and the buttons
\* are disabled.
directNext ==
  /\ Alive
  /\ Len(flashcards) <= 1
  /\ handleNextFlashcard
  /\ direct' = [handler |-> "handleNextFlashcard", reading |-> FALSE]
  /\ UNCHANGED sched

\* handlePreviousFlashcard called in the same way
directPrevious ==
  /\ Alive
  /\ Len(flashcards) <= 1
  /\ handlePreviousFlashcard
  /\ direct' = [handler |-> "handlePreviousFlashcard", reading |-> FALSE]
  /\ UNCHANGED sched

\* Loading, adding and deleting change the length of the list between
\* presses of the two buttons, and a reading aloud disables them.
NavNext ==
  \/ fetchFlashcards
  \/ clickLink
  \/ typeWord
  \/ typeDefinition
  \/ formSubmit
  \/ clickDelete
  \/ handleReadAloudClick
  \/ audioEnded
  \/ workerFetch
  \/ Continue
  \/ pressNext
  \/ pressPrevious
  \/ directNext
  \/ directPrevious

NavSpec == Init /\ [][NavNext]_vars

\* ----------------------------------------------------------- worker harness
\* The namespaces the worker is called on: the preset cards, and the three
\* presets with one value replaced by a text that is not JSON or is empty.
WorkerStores ==
  InitStores \cup
  {[k \in 1..3 |-> IF k = bad THEN v ELSE JSONstringify(Presets[k])] :
     bad \in 1..3, v \in {Corrupt, EmptyText}}

\* Request bodies of POST /api/flashcards: complete, without a required
\* field, and carrying the fields the worker assigns.
WorkerDrafts ==
  {[word |-> <<"w", "4">>, definition |-> <<"d", "4">>, exampleSentence |-> <<"e", "4">>],
   [definition |-> <<"d", "4">>],
   [word |-> <<"w", "4">>],
   [word |-> <<"w", "4">>, definition |-> <<"d", "4">>, id |-> 1, createdAt |-> 7,
    dueDate |-> 9, interval |-> One]}

\* Request bodies of PUT /api/flashcards/{id}
WorkerCards ==
  {calculateNextDueDate(PA, TRUE, 0, 0), [id |-> 2, word |-> <<"w", "2", "x">>, definition |-> <<"d", "2", "x">>,
                                          createdAt |-> 0]}

WorkerRequests ==
  {[kind |-> "list", stage |-> "req"]}
  \cup {[kind |-> "add", stage |-> "req", body |-> d, caller |-> "client"] :
          d \in WorkerDrafts}
  \cup {[kind |-> "update", stage |-> "req", id |-> id, body |-> c] :
          id \in 1..2, c \in WorkerCards}
  \cup {[kind |-> "delete", stage |-> "req", id |-> id] :
          id \in {1, UnusedId}}

WorkerInit ==
  /\ store \in WorkerStores
  /\ issuedIds = {}
  /\ clock = 0
  /\ flashcards = <<>>
  /\ currentFlashcardIndex = 0
  /\ error = Null
  /\ loading = TRUE
  /\ AsideInit
  /\ mounted = FALSE
  /\ inflight = {}
  /\ nEvents = 0
  /\ direct = NoCall
  /\ sched = SchedStart(SchedBase)

\* The requests the worker has not answered yet
Unanswered == {op \in inflight : op.stage # "resp"}

\* A client sends a request once the previous one has been answered, or
\* while a GET is being served or a POST awaits its put(); the answers
\* received so far are dropped.
workerRequest ==
  /\ \A op \in Unanswered : op.kind = "list" \/ op.stage = "built"
  /\ Cardinality(Unanswered) <= 1
  /\ nEvents < MaxEvents
  /\ nEvents' = nEvents + 1
  /\ \E req \in WorkerRequests :
       LET n == IF \E op \in Unanswered : op.n = 1 THEN 2 ELSE 1
       IN inflight' = Unanswered \cup
            {[f \in DOMAIN req \cup {"n"} |-> IF f = "n" THEN n ELSE req[f]]}
  /\ UNCHANGED <<kvVars, appVars, asideVars, mounted>>
  /\ HarnessIdle

WorkerNext ==
  \/ workerRequest
  \/ workerFetch

WorkerSpec == WorkerInit /\ [][WorkerNext]_vars

\* ------------------------------------------------------------------ claims
\* Equality and order of intervals as numbers
EqQ(a, b) ==
  LET m == IF a.exp < b.exp THEN a.exp ELSE b.exp
  IN a.num * TwoTo(a.exp - m) = b.num * TwoTo(b.exp - m)

LeqQ(a, b) ==
  LET m == IF a.exp < b.exp THEN a.exp ELSE b.exp
  IN a.num * TwoTo(a.exp - m) <= b.num * TwoTo(b.exp - m)

\* The interval of the card handed to the scheduler, absent read as 0
PrevInterval == IF "interval" \in DOMAIN sched.prev THEN sched.prev.interval
                ELSE [num |-> 0, exp |-> 0]

Reviewed == sched.steps > 0

\* C1: a successful review of a card with interval i yields interval 1 when
\* i = 0 and max(1, 2 * i) when i > 0.
C1_SuccessInterval ==
  (Reviewed /\ sched.success) =>
    LET i == PrevInterval
        o == sched.cur.interval
        twice == [num |-> i.num, exp |-> i.exp + 1]
    IN IF i.num = 0 THEN EqQ(o, [num |-> 1, exp |-> 0])
       ELSE IF LeqQ([num |-> 1, exp |-> 0], twice) THEN EqQ(o, twice)
       ELSE EqQ(o, [num |-> 1, exp |-> 0])

C1_Witness ==
  /\ Reviewed /\ sched.success
  /\ PrevInterval = [num |-> 1, exp |-> 0 - 2]
  /\ sched.cur.interval = [num |-> 1, exp |-> 0]

\* C2 as claimed: a failed review of a card with interval i yields exactly
\* i / 2, and no card has a negative interval after any sequence of reviews.
C2_FailureInterval ==
  /\ (Reviewed /\ ~sched.success) =>
        LET i == PrevInterval
            o == sched.cur.interval
        IN IF i.num = 0 \/ i.exp > MaxExp THEN o = i
           ELSE o.num = i.num /\ o.exp = i.exp - 1
  /\ Reviewed => sched.cur.interval.num >= 0

\* C2 amended: a failed review of a card with interval i yields i / 2 as a
\* binary64 number: exactly i / 2, unless i is an odd multiple of 2^MinExp,
\* where the result is the even one of the two multiples of 2^MinExp next
\* to i / 2 (0 for 2^MinExp itself); no card has a negative interval after
\* any sequence of reviews.
C2_FailureIntervalRounded ==
  /\ (Reviewed /\ ~sched.success) =>
        LET i == PrevInterval
            o == sched.cur.interval
        IN IF i.num = 0 \/ i.exp > MaxExp THEN o = i
           ELSE IF i.exp > MinExp THEN o.num = i.num /\ o.exp = i.exp - 1
           ELSE \E k \in {(i.num - 1) \div 2, (i.num + 1) \div 2} :
                  /\ k % 2 = 0
                  /\ IF k = 0 THEN o.num = 0
                     ELSE /\ o.num > 0
                          /\ o.exp >= MinExp
                          /\ o.num * TwoTo(o.exp - MinExp) = k
  /\ Reviewed => sched.cur.interval.num >= 0

\* A failed review of 3 * 2^MinExp gave 2 * 2^MinExp.
C2_Witness ==
  /\ Reviewed /\ ~sched.success
  /\ PrevInterval = [num |-> 3, exp |-> MinExp]
  /\ sched.cur.interval = [num |-> 1, exp |-> MinExp + 1]

\* C3: after any review, dueDate - lastReviewedAt = interval * 86400000
\* exactly.
C3_DueMinusReviewed ==
  Reviewed =>
    LET i == sched.cur.interval
    IN IF i.exp >= 0
       THEN sched.cur.dueDate - sched.cur.lastReviewedAt
              = i.num * TwoTo(i.exp) * 86400000
       ELSE (sched.cur.dueDate - sched.cur.lastReviewedAt) * TwoTo(0 - i.exp)
              = i.num * 86400000

\* C4: the scheduler leaves id, word, definition, exampleSentence and
\* createdAt as they were, present or absent, on success and on failure.
C4_Frame ==
  Reviewed =>
    \A f \in {"id", "word", "definition", "exampleSentence", "createdAt"} :
      /\ (f \in DOMAIN sched.cur) <=> (f \in DOMAIN sched.prev)
      /\ (f \in DOMAIN sched.prev) => sched.cur[f] = sched.prev[f]

C4_Witness ==
  /\ Reviewed
  /\ "exampleSentence" \notin DOMAIN sched.prev
  /\ sched.cur.lastReviewedAt = 1
  /\ sched.cur.interval # PrevInterval


\* The due date a card is ordered by, a missing one counting as 0
Due0(c) == IF "dueDate" \in DOMAIN c THEN c.dueDate ELSE 0

\* C5: in every state the list is in non-decreasing order of dueDate, a card
\* without dueDate being ordered as if its dueDate were 0.
C5_DeckSorted ==
  \A i \in 1..Len(flashcards) : \A j \in (i + 1)..Len(flashcards) :
    Due0(flashcards[i]) <= Due0(flashcards[j])

C5_Witness ==
  /\ Len(flashcards) >= 3
  /\ \E i \in 1..Len(flashcards) : "dueDate" \notin DOMAIN flashcards[i]
  /\ \E i \in 1..Len(flashcards) :
       /\ "lastReviewedAt" \in DOMAIN flashcards[i]
       /\ flashcards[i] # PA
       /\ Due0(flashcards[i]) > 0

\* The step in which the handler that issued op resumes with op's result
Consumed(op) ==
  /\ op \in inflight
  /\ op.stage = "resp"
  /\ inflight' = inflight \ {op}

\* C6: when the update call of a review fails, the list, its order and the
\* cursor stay as they were and the only change is that the error is set.
C6_ReviewFailureKeepsDeck ==
  [][\A op \in inflight :
       (Consumed(op) /\ op.kind = "update" /\ ~ResultOf(op).success) =>
         /\ flashcards' = flashcards
         /\ currentFlashcardIndex' = currentFlashcardIndex
         /\ error' # Null
         /\ error' = ResultOf(op).error
         /\ loading' = loading]_vars

C6_Witness ==
  /\ error # Null
  /\ error[1] = "Failed to update flashcard:"
  /\ Len(flashcards) > 1
  /\ \A op \in inflight : op.kind # "update"

\* C7: when the update call of a review succeeds, the cursor advances by one
\* modulo the length of the list if and only if the list holds more than one
\* card when the response is handled.
C7_AdvanceOnCurrentLength ==
  [][\A op \in inflight :
       (Consumed(op) /\ op.kind = "update" /\ ResultOf(op).success) =>
         currentFlashcardIndex' =
           IF Len(flashcards') > 1
           THEN (currentFlashcardIndex + 1) % Len(flashcards')
           ELSE currentFlashcardIndex]_vars

\* C8: reviewing an id that is not in the list issues no store call and
\* leaves the list, the cursor and the error as they were.
C8_ReviewAbsentNoOp ==
  [][(direct'.handler = "handleReviewFlashcard" /\ ~direct'.found) =>
       /\ inflight' = inflight
       /\ store' = store
       /\ flashcards' = flashcards
       /\ currentFlashcardIndex' = currentFlashcardIndex
       /\ error' = error]_vars

C8_Witness ==
  /\ direct.handler = "handleReviewFlashcard"
  /\ ~direct.found
  /\ error # Null
  /\ Len(flashcards) > 0
  /\ inflight # {}

\* The cards a successful store response carries
PayloadCards(op) ==
  IF op.kind = "delete" THEN {}
  ELSE IF op.kind = "list"
  THEN {ResultOf(op).data[k] : k \in 1..Len(ResultOf(op).data)}
  ELSE {ResultOf(op).data}

\* C9: every card value of the list is the payload of a successful store
\* response: a step puts into the list only cards that the response it
\* handles carries, and issuing a review leaves the card as it was.
C9_DeckHoldsStoreEchoes ==
  [][\A i \in 1..Len(flashcards') :
       \/ \E j \in 1..Len(flashcards) : flashcards[j] = flashcards'[i]
       \/ \E op \in inflight :
            /\ Consumed(op)
            /\ ResultOf(op).success
            /\ flashcards'[i] \in PayloadCards(op)]_vars

C9_Witness ==
  \E op \in inflight :
    /\ op.kind = "update"
    /\ op.stage = "req"
    /\ HasId(flashcards, op.id)
    /\ FindById(flashcards, op.id) # op.body
    /\ "lastReviewedAt" \in DOMAIN FindById(flashcards, op.id)

\* C10: a failed load keeps the cards and the order the list had before it
\* and sets the error; a load that fails does not empty the list.
C10_FailedLoadKeepsDeck ==
  [][\A op \in inflight :
       (Consumed(op) /\ op.kind = "list" /\ ~ResultOf(op).success) =>
         /\ flashcards' = flashcards
         /\ currentFlashcardIndex' = currentFlashcardIndex
         /\ error' # Null
         /\ error' = ResultOf(op).error]_vars

C10_Witness ==
  /\ Len(flashcards) > 0
  /\ ~loading
  /\ error # Null
  /\ error[1] = "Failed to fetch flashcards:"
  /\ \A op \in inflight : op.kind # "list"

\* C11: when the create call of an add succeeds, the card the store returned
\* is in the list afterwards; when it fails, the cards, their order and the
\* cursor stay as they were and the error is set.
C11_AddOutcome ==
  [][\A op \in inflight :
       (Consumed(op) /\ op.kind = "add") =>
         IF ResultOf(op).success
         THEN \E i \in 1..Len(flashcards') : flashcards'[i] = ResultOf(op).data
         ELSE /\ flashcards' = flashcards
              /\ currentFlashcardIndex' = currentFlashcardIndex
              /\ error' # Null
              /\ error' = ResultOf(op).error]_vars

C11_Witness ==
  /\ Len(flashcards) >= 2
  /\ \E i \in 1..Len(flashcards) :
       /\ flashcards[i].word = <<" ", "a", " ">>
       /\ flashcards[i].id \in DOMAIN store
       /\ store[flashcards[i].id] = JSONstringify(flashcards[i])

\* C12: when the delete call of a remove succeeds, the list no longer holds
\* the id and every other card keeps its place relative to the others; when
\* it fails, the cards, their order and the cursor stay as they were and the
\* error is set.
C12_RemoveOutcome ==
  [][\A op \in inflight :
       (Consumed(op) /\ op.kind = "delete") =>
         IF ResultOf(op).success
         THEN /\ \A i \in 1..Len(flashcards') : flashcards'[i].id # op.id
              /\ flashcards' = SelectSeq(flashcards, LAMBDA f : f.id # op.id)
         ELSE /\ flashcards' = flashcards
              /\ currentFlashcardIndex' = currentFlashcardIndex
              /\ error' # Null
              /\ error' = ResultOf(op).error]_vars

C12_Witness ==
  /\ error # Null
  /\ error[1] = "Failed to delete flashcard:"
  /\ Len(flashcards) = 3
  /\ currentFlashcardIndex = 2
  /\ inflight = {}

\* C13: in every reachable state the cursor lies in [0, length - 1] unless
\* the list is empty, so that the current card is a card of the list.
C13_CursorInRange ==
  Len(flashcards) > 0 =>
    (currentFlashcardIndex >= 0 /\ currentFlashcardIndex < Len(flashcards))

\* C14: with 3 cards (three different ids) and the cursor at 0, removing
\* the card at the cursor leaves the cursor at 0 on the card formerly at
\* index 1; removing the only card of the list leaves the list empty, with no
\* current card.
C14_RemoveAtCursor ==
  [][\A op \in inflight :
       (/\ Consumed(op) /\ op.kind = "delete" /\ ResultOf(op).success
        /\ currentFlashcardIndex = 0
        /\ Len(flashcards) \in {1, 3}
        /\ \A i, j \in 1..Len(flashcards) :
             flashcards[i].id = flashcards[j].id => i = j
        /\ flashcards[1].id = op.id) =>
         IF Len(flashcards) = 3
         THEN /\ currentFlashcardIndex' = 0
              /\ Len(flashcards') = 2
              /\ flashcards'[currentFlashcardIndex' + 1] = flashcards[2]
         ELSE flashcards' = <<>>]_vars

C14_Witness ==
  /\ flashcards = <<PC, PA>>
  /\ currentFlashcardIndex = 0
  /\ DOMAIN store = {1, 3}
  /\ inflight = {}

\* C15: Next and Previous move the cursor by one modulo the length the list
\* has when the advance runs, wrapping at both ends, and change nothing when
\* the list has fewer than two cards; the cursor stays valid: an index of
\* the list, or 0 when the list is empty.  (The two buttons are disabled
\* while a card is read aloud: a press then is no advance, and it leaves the
\* list and the cursor as they were.)
C15_AdvanceWraps ==
  [][/\ (direct'.handler = "handleNextFlashcard" /\ ~direct'.reading) =>
          currentFlashcardIndex' =
            IF Len(flashcards) <= 1 THEN currentFlashcardIndex
            ELSE IF currentFlashcardIndex = Len(flashcards) - 1 THEN 0
            ELSE currentFlashcardIndex + 1
     /\ (direct'.handler = "handlePreviousFlashcard" /\ ~direct'.reading) =>
          currentFlashcardIndex' =
            IF Len(flashcards) <= 1 THEN currentFlashcardIndex
            ELSE IF currentFlashcardIndex = 0 THEN Len(flashcards) - 1
            ELSE currentFlashcardIndex - 1
     /\ (direct'.handler \in {"handleNextFlashcard", "handlePreviousFlashcard"}) =>
          /\ flashcards' = flashcards
          /\ IF Len(flashcards') = 0 THEN currentFlashcardIndex' = 0
             ELSE currentFlashcardIndex' \in 0..(Len(flashcards') - 1)
          /\ direct'.reading => currentFlashcardIndex' = currentFlashcardIndex]_vars

\* C16: a delete of an id that neither the store nor the list holds, once
\* reported as success, leaves the list and the cursor as they were.
C16_DeleteAbsentKeepsDeck ==
  [][\A op \in inflight :
       (/\ Consumed(op) /\ op.kind = "delete" /\ op.id = UnusedId
        /\ ResultOf(op).success) =>
         /\ flashcards' = flashcards
         /\ currentFlashcardIndex' = currentFlashcardIndex]_vars

\* The step in which the worker answers request op with response r
Answered(op, r) ==
  /\ op \in inflight
  /\ op.stage # "resp"
  /\ r \in inflight'
  /\ r.stage = "resp"
  /\ r.n = op.n

\* The response reports a failure of the KV namespace itself
KvFailed(http) ==
  IF http.status = 500 THEN http.body.error[2] = "KV error" ELSE FALSE

\* The cards among the values of kv, in the order of their keys
ValidCardsFrom(kv, keys) ==
  LET valid == SelectSeq(KeysInOrder(keys), LAMBDA k : "json" \in DOMAIN kv[k])
  IN [i \in 1..Len(valid) |-> kv[valid[i]].json]

\* C17: when some stored values are not valid card JSON, list() succeeds
\* and returns exactly the valid cards, unless the namespace itself fails.
C17_ListSkipsCorrupt ==
  \A op \in inflight :
    (op.kind = "list" /\ op.stage = "resp" /\ ~KvFailed(op.outcome)) =>
      /\ op.outcome.status = 200
      /\ op.outcome.body = ValidCardsFrom(store, DOMAIN store)

\* The worker has built the card of the POST op and awaits its put().
Built(op, r) ==
  /\ op \in inflight
  /\ op.kind = "add"
  /\ op.stage = "req"
  /\ r \in inflight'
  /\ r.stage = "built"
  /\ r.n = op.n

\* C18: a create builds a card with the draft's word, definition and
\* exampleSentence, an id no stored card has, interval 0, and createdAt and
\* dueDate two readings of the clock, dueDate the later by no more than the
\* clock's advance; id, createdAt, dueDate and interval sent by the client
\* do not survive.  When the create succeeds, other requests having been
\* served in between, that card is the response and is stored under its id,
\* which no stored card had, and a following list() contains it.
C18_CreateThenList ==
  [][\A op \in inflight : \A r \in inflight' :
       /\ Built(op, r) =>
            LET card == r.card
            IN /\ \A f \in {"word", "definition", "exampleSentence"} :
                    /\ (f \in DOMAIN card) <=> (f \in DOMAIN op.body)
                    /\ (f \in DOMAIN op.body) => card[f] = op.body[f]
               /\ card.id \notin DOMAIN store
               /\ card.interval = [num |-> 0, exp |-> 0]
               /\ clock <= card.createdAt
               /\ card.createdAt <= card.dueDate
               /\ card.dueDate <= clock'
               /\ store' = store
       /\ (Answered(op, r) /\ op.kind = "add" /\ r.outcome.status = 201) =>
            LET card == r.outcome.body
                listed == workerGet(store', FALSE)
            IN /\ op.stage = "built"
               /\ card = op.card
               /\ \A f \in {"word", "definition", "exampleSentence"} :
                    /\ (f \in DOMAIN card) <=> (f \in DOMAIN op.body)
                    /\ (f \in DOMAIN op.body) => card[f] = op.body[f]
               /\ card.id \notin DOMAIN store
               /\ card.interval = [num |-> 0, exp |-> 0]
               /\ card.createdAt <= card.dueDate
               /\ card.dueDate <= clock
               /\ DOMAIN store' = DOMAIN store \cup {card.id}
               /\ store'[card.id] = JSONstringify(card)
               /\ \A k \in DOMAIN store : store'[k] = store[k]
               /\ (listed.status = 200) =>
                    \E i \in 1..Len(listed.body) : listed.body[i] = card]_vars

\* A create whose body carried an id succeeded after another request had
\* changed the namespace while the create awaited its put().
C18_Witness ==
  \E op \in inflight :
    /\ op.kind = "add"
    /\ op.stage = "resp"
    /\ op.outcome.status = 201
    /\ "id" \in DOMAIN op.body
    /\ op.outcome.body.id # op.body.id
    /\ store[op.outcome.body.id] = JSONstringify(op.outcome.body)
    /\ 1 \notin DOMAIN store
    /\ \E other \in inflight :
         other.kind = "delete" /\ other.stage = "resp" /\ other.id = 1

\* C19: create with a missing word or definition is answered with 400 and
\* stores no card.
C19_CreateValidates ==
  [][\A op \in inflight : \A r \in inflight' :
       (/\ Answered(op, r) /\ op.kind = "add"
        /\ ("word" \notin DOMAIN op.body \/ "definition" \notin DOMAIN op.body)) =>
         /\ r.outcome.status = 400
         /\ store' = store]_vars

\* C20: an update whose payload id differs from the path id is answered
\* with 400 and leaves the store as it was; one whose ids match replaces the
\* whole stored value with the payload.
C20_UpdateChecksId ==
  [][\A op \in inflight : \A r \in inflight' :
       (Answered(op, r) /\ op.kind = "update") =>
         IF op.body.id # op.id
         THEN r.outcome.status = 400 /\ store' = store
         ELSE IF r.outcome.status = 200
         THEN /\ DOMAIN store' = DOMAIN store \cup {op.id}
              /\ "json" \in DOMAIN store'[op.id]
              /\ store'[op.id].json = op.body
              /\ \A k \in DOMAIN store \ {op.id} : store'[k] = store[k]
              /\ r.outcome.body = op.body
         ELSE store' = store]_vars

C20_Witness ==
  \E op \in inflight :
    /\ op.kind = "update"
    /\ op.stage = "resp"
    /\ op.body.id # op.id
    /\ op.outcome.status = 400
    /\ op.id \in DOMAIN store
    /\ store[op.id] = JSONstringify(Presets[op.id])

\* C21: when two updates of the same card are in flight together, the worker
\* accepts each of them whatever the store holds (status 200 and the store
\* holds the payload; the only refusal is a failed KV write), and when the
\* response of a successful update is handled every entry of the list with
\* that id becomes the payload of that response, so the response handled
\* last decides what the list holds.
C21_LastResponseWins ==
  [][\A op \in inflight :
       /\ \A r \in inflight' :
            ( /\ Answered(op, r)
              /\ op.kind = "update"
              /\ ~IsRejected(r.outcome)
              /\ \E other \in inflight \ {op} :
                    other.kind = "update" /\ other.id = op.id )
            => IF r.outcome.status = 200
               THEN /\ op.id \in DOMAIN store'
                    /\ store'[op.id] = JSONstringify(op.body)
                    /\ r.outcome.body = op.body
               ELSE /\ store' = store
                    /\ r.outcome.body.error[1] = "Failed to update flashcard:"
       /\ ( /\ Consumed(op)
            /\ op.kind = "update"
            /\ ResultOf(op).success )
          => /\ Len(flashcards') = Len(flashcards)
             /\ \A i \in 1..Len(flashcards') :
                  flashcards'[i].id = op.id
                    => flashcards'[i] = op.outcome.body
     ]_vars

\* Two reviews of one card were in flight together and both were accepted:
\* the list holds the payload of the response handled first, the store holds
\* that payload too, and the other response is about to be handled.
C21_Witness ==
  \E op \in inflight :
    /\ op.kind = "update"
    /\ op.stage = "resp"
    /\ ~IsRejected(op.outcome)
    /\ op.outcome.status = 200
    /\ \E i \in 1..Len(flashcards) :
         LET c == flashcards[i]
         IN /\ c.id = op.id
            /\ Has(c, "lastReviewedAt")
            /\ c # op.outcome.body
            /\ c.id \in DOMAIN store
            /\ store[c.id] = JSONstringify(c)

\* The four operations of flashcardService
StoreKinds == {"list", "add", "update", "delete"}

\* C22: whatever fetch settled with, the call of list, create, update or
\* delete hands its caller a tagged result and nothing else: success exactly
\* when a response with a 2xx status came back, then with the response body
\* as its data (delete has none); otherwise, on a rejected fetch and on any
\* other status, failure with a message and no data.
C22_TaggedResult ==
  \A op \in inflight :
    (op.kind \in StoreKinds /\ op.stage = "resp") =>
      LET res == ResultOf(op)
      IN /\ "success" \in DOMAIN res
         /\ DOMAIN res \subseteq {"success", "data", "error"}
         /\ res.success \in BOOLEAN
         /\ res.success <=> ( /\ ~IsRejected(op.outcome)
                              /\ op.outcome.status \in 200..299 )
         /\ IF res.success
            THEN /\ ~Has(res, "error")
                 /\ IF op.kind = "delete" THEN ~Has(res, "data")
                    ELSE Has(res, "data") /\ res.data = op.outcome.body
            ELSE /\ ~Has(res, "data")
                 /\ Has(res, "error")
                 /\ Len(res.error) > 0

\* One call settled by a rejected fetch and another by an error status
C22_Witness ==
  \E op1, op2 \in inflight :
    /\ op1.kind \in StoreKinds
    /\ op2.kind \in StoreKinds
    /\ op1.stage = "resp"
    /\ op2.stage = "resp"
    /\ IsRejected(op1.outcome)
    /\ ~IsRejected(op2.outcome)
    /\ op2.outcome.status >= 400

\* C23: an error message that is set goes away only in a step where the user
\* dismisses it (nothing but the message changes) or in a step that handles
\* the successful response of an operation.
C23_ErrorRetained ==
  [][(error # Null /\ error' = Null)
       => \/ UNCHANGED <<kvVars, flashcards, currentFlashcardIndex, loading,
                         asideVars, mounted, inflight, nEvents>>
          \/ \E op \in inflight : Consumed(op) /\ ResultOf(op).success
    ]_vars

\* Two cards with the same id have the same createdAt.
SameCreation(c, d) == c.id = d.id => c.createdAt = d.createdAt

\* C24: over every step, a card of the store or of the list has the
\* createdAt every card with its id had in the store or the list before the
\* step, and each card is stored under its own id: reviews replace the whole
\* stored card and the whole list entry, yet id and createdAt stay as
\* assigned at creation.
C24_IdAndCreatedAtKept ==
  [][/\ (store' # store)
          => \A k \in DOMAIN store' :
               IsJSON(store'[k])
                 => LET d == JSONparse(store'[k])
                    IN /\ d.id = k
                       /\ \A m \in DOMAIN store :
                            IsJSON(store[m]) => SameCreation(JSONparse(store[m]), d)
                       /\ \A i \in 1..Len(flashcards) :
                            SameCreation(flashcards[i], d)
     /\ (flashcards' # flashcards)
          => \A j \in 1..Len(flashcards') :
               /\ \A i \in 1..Len(flashcards) :
                    SameCreation(flashcards[i], flashcards'[j])
               /\ \A m \in DOMAIN store :
                    IsJSON(store[m])
                      => SameCreation(JSONparse(store[m]), flashcards'[j])
    ]_vars

\* A card reviewed after the clock moved sits in the store and in the list
\* with a lastReviewedAt later than its createdAt.
C24_Witness ==
  \E i \in 1..Len(flashcards) :
    LET c == flashcards[i]
    IN /\ Has(c, "lastReviewedAt")
       /\ c.lastReviewedAt > c.createdAt
       /\ c.id \in DOMAIN store
       /\ store[c.id] = JSONstringify(c)

\* C25: when the successful response of a delete is handled and no other
\* call is left in flight, the deleted id is neither a key of the store nor
\* the id of an entry of the list.
C25_DeletedStaysDeleted ==
  [][\A op \in inflight :
       ( /\ Consumed(op)
         /\ op.kind = "delete"
         /\ ResultOf(op).success
         /\ inflight' = {} )
       => /\ op.id \notin DOMAIN store'
          /\ ~HasId(flashcards', op.id)
    ]_vars

\* The place of input[i] in the stable ascending arrangement of input:
\* after every element with a smaller dueDate, and after the elements with
\* the same dueDate that stand before it.
StablePlace(input, i) ==
  1 + Cardinality({j \in 1..Len(input) : Due0(input[j]) < Due0(input[i])})
    + Cardinality({j \in 1..(i - 1) : Due0(input[j]) = Due0(input[i])})

IsStableSortOf(output, input) ==
  /\ Len(output) = Len(input)
  /\ \A i \in 1..Len(input) : output[StablePlace(input, i)] = input[i]

\* C26: every sort keeps cards of equal dueDate in the order they came in:
\* the list after a load is the stable arrangement of the listing, after an
\* add that of the old list followed by the new card, and after a review
\* that of the old list with the reviewed entry replaced in place.
C26_SortIsStable ==
  [][\A op \in inflight :
       ( /\ Consumed(op)
         /\ op.kind \in {"list", "add", "update"}
         /\ ResultOf(op).success )
       => IsStableSortOf(flashcards',
            CASE op.kind = "list" -> op.outcome.body
              [] op.kind = "add" -> Append(flashcards, op.outcome.body)
              [] op.kind = "update" ->
                   [i \in 1..Len(flashcards) |->
                      IF flashcards[i].id = op.id THEN op.outcome.body
                      ELSE flashcards[i]])
    ]_vars

\* An added card stands behind an older card with the same dueDate, and a
\* card without dueDate stands behind an older card whose dueDate is 0.
C26_Witness ==
  /\ \E i, j \in 1..Len(flashcards) :
       /\ i < j
       /\ flashcards[j].word = <<" ", "a", " ">>
       /\ Due0(flashcards[i]) = Due0(flashcards[j])
  /\ \E i, j \in 1..Len(flashcards) :
       /\ i < j
       /\ ~Has(flashcards[j], "dueDate")
       /\ Has(flashcards[i], "dueDate")
       /\ Due0(flashcards[i]) = 0

\* C27: the scheduler's result is determined by the card, the flag and the
\* instant of the call: a second call with the same card and flag at the same
\* instant returns the same card.
C27_SchedulerDeterministic ==
  Reviewed => sched.twin = sched.cur

\* The intervals and the days added by success, success, failure from 0
SSF == <<TRUE, TRUE, FALSE>>
SSFIntervals == <<One, Q(2, 1), One>>

\* The harness applied success, success, failure to a card of interval 0.
RanSSF ==
  /\ Len(sched.trail) = 3
  /\ EqQ(IntervalOrZero(sched.trail[1].from), Zero)
  /\ \A k \in 1..3 : sched.trail[k].success = SSF[k]

\* Reviews k and k+1 of the trail are a success followed by a failure.
SuccessThenFailure(k) ==
  /\ sched.trail[k].success
  /\ ~sched.trail[k + 1].success

\* C29 as claimed: for a card with interval i > 0, a success followed by a
\* failure gives interval i again; a card starting at interval 0 goes through
\* 1, 2, 1 on success, success, failure, each time with dueDate equal to the
\* recorded review time plus that many days.
C29_SuccessThenFailure ==
  /\ \A k \in 1..(Len(sched.trail) - 1) :
       LET i == IntervalOrZero(sched.trail[k].from)
       IN (SuccessThenFailure(k) /\ ~LeqQ(i, Zero))
            => EqQ(sched.trail[k + 1].card.interval, i)
  /\ RanSSF =>
       \A k \in 1..3 :
         LET c == sched.trail[k].card
         IN /\ EqQ(c.interval, SSFIntervals[k])
            /\ c.dueDate = c.lastReviewedAt + DaysToMs(SSFIntervals[k])

\* C28: no two entries of the list have the same id.
C28_UniqueIds ==
  \A i, j \in 1..Len(flashcards) :
    flashcards[i].id = flashcards[j].id => i = j

\* The ids of the keys of the store and the ids of the entries of the list
DeckIds == {flashcards[i].id : i \in 1..Len(flashcards)}

\* C30: in a session where every call succeeds, whenever the application
\* has loaded and no call is in flight, the ids of the list are the keys of
\* the store.
C30_DeckMirrorsStore ==
  (mounted /\ inflight = {}) => DeckIds = DOMAIN store

\* C31: in a session where every call succeeds, once the response of a
\* review has been handled and no call is left in flight (so also after two
\* overlapping reviews of one card), the entry of the list for the reviewed
\* card is the card the store holds under its id.
C31_DeckCopyIsStoreCopy ==
  [][\A op \in inflight :
       ( /\ Consumed(op)
         /\ op.kind = "update"
         /\ ResultOf(op).success
         /\ inflight' = {} )
       => \A i \in 1..Len(flashcards') :
            (flashcards'[i].id = op.id /\ op.id \in DOMAIN store')
              => store'[op.id] = JSONstringify(flashcards'[i])
    ]_vars

\* C32: when the successful response of a review is handled and the list
\* has no entry with the reviewed id (the card was removed while the review
\* was in flight), the list has the same ids after the step as before, and
\* none of them is the reviewed id.
C32_ReviewDoesNotRestore ==
  [][\A op \in inflight :
       ( /\ Consumed(op)
         /\ op.kind = "update"
         /\ ResultOf(op).success
         /\ ~HasId(flashcards, op.id) )
       => /\ {flashcards'[i].id : i \in 1..Len(flashcards')} =
               {flashcards[i].id : i \in 1..Len(flashcards)}
          /\ ~HasId(flashcards', op.id)
    ]_vars

\* The successful response of a review waits to be handled, and the card,
\* in the list when the review was issued, has been removed since.
C32_Witness ==
  \E op \in inflight :
    /\ op.kind = "update"
    /\ op.stage = "resp"
    /\ ResultOf(op).success
    /\ ~HasId(flashcards, op.id)
    /\ Len(flashcards) = op.len - 1
    /\ Len(flashcards) > 0

\* C33: when the successful response of a review is handled, no other store
\* operation having been in flight during the review, and the list has
\* n > 1 cards, the cursor becomes (cursor + 1) mod n, whatever place the
\* reviewed card takes in the list sorted again.
C33_AdvanceAfterReview ==
  [][\A op \in inflight :
       ( /\ Consumed(op)
         /\ op.kind = "update"
         /\ ResultOf(op).success
         /\ Len(flashcards) > 1 )
       => /\ Len(flashcards') = Len(flashcards)
          /\ currentFlashcardIndex' =
               (currentFlashcardIndex + 1) % Len(flashcards)
    ]_vars

\* A card reviewed after the clock moved went from the front of a list of
\* three to its end, and the cursor went from 0 to 1.
C33_Witness ==
  /\ inflight = {}
  /\ Len(flashcards) = 3
  /\ Has(flashcards[3], "lastReviewedAt")
  /\ flashcards[3].lastReviewedAt = 1
  /\ currentFlashcardIndex = 1

\* C34 as claimed: after any review the interval is 0 or a power of two,
\* and a review of a card with a positive interval never gives 0.
C34_PowerOfTwoNeverZero ==
  sched.steps > 0 =>
    /\ sched.cur.kind \in {"zero", "pow"}
    /\ sched.prev.kind = "pow" => sched.cur.kind # "zero"

\* C34 amended: after a review the interval is 0 or 2^k with k within
\* MinExp..MaxExp, except that a successful review at 2^MaxExp gives
\* Infinity, which every later review leaves Infinity; a review of a card
\* with a positive interval gives 0 exactly when it is a failed review at
\* 2^MinExp.
C34_PowerOfTwoWithinRange ==
  sched.steps > 0 =>
    /\ sched.cur.kind \in {"zero", "pow", "inf"}
    /\ sched.cur.kind = "pow" => sched.cur.k \in MinExp..MaxExp
    /\ sched.cur.kind = "inf"
         <=> \/ sched.prev.kind = "pow" /\ sched.prev.k = MaxExp /\ sched.success
             \/ sched.prev.kind = "inf"
    /\ sched.prev.kind = "pow"
         => ( sched.cur.kind = "zero"
                <=> (sched.prev.k = MinExp /\ ~sched.success) )

\* Two failed reviews took the interval from 2^(MinExp + 1) to 0.
C34_Witness ==
  /\ sched.steps = 2
  /\ ~sched.success
  /\ sched.prev = Pow2(MinExp)
  /\ sched.cur = ZeroDays

\* A text made of white space only, or empty
IsBlank(s) == \A i \in 1..Len(s) : s[i] \in {" ", "\t", "\n"}

\* A press of the form's button, whether the submit event was dispatched
\* (handleSubmit ran) or the browser stopped it
Pressed(d) == d.handler \in {"handleSubmit", "submitBlocked"}

\* C35 as claimed: a submit of the add form whose word or definition is
\* empty or white space only issues no call, sets the form's message to
\* 'Word and Definition are required.', and leaves the list and the store as
\* they were.
C35_BlankSubmitReportsRequired ==
  [][( /\ Pressed(direct')
       /\ (IsBlank(direct'.word) \/ IsBlank(direct'.definition)) )
     => /\ inflight' = inflight
        /\ store' = store
        /\ flashcards' = flashcards
        /\ issuedIds' = issuedIds
        /\ direct'.error = <<"Word and Definition are required.">>
    ]_vars

\* C35 amended: a submit of the add form whose word or definition is empty
\* or white space only issues no call and leaves the list and the store as
\* they were; the form's message is set to 'Word and Definition are
\* required.' when handleSubmit runs, which it does when neither field is
\* empty; with an empty word the browser's check of the required field stops
\* the submit, handleSubmit does not run and the form's message stays what it
\* was.
C35_BlankSubmitIssuesNothing ==
  [][( /\ Pressed(direct')
       /\ (IsBlank(direct'.word) \/ IsBlank(direct'.definition)) )
     => /\ inflight' = inflight
        /\ store' = store
        /\ flashcards' = flashcards
        /\ issuedIds' = issuedIds
        /\ (direct'.handler = "handleSubmit")
             => direct'.error = <<"Word and Definition are required.">>
        /\ (direct'.word # <<>> /\ direct'.definition # <<>>)
             => direct'.handler = "handleSubmit"
        /\ (direct'.word = <<>>)
             => /\ direct'.handler = "submitBlocked"
                /\ direct'.error = form.error
                /\ form' = form
    ]_vars

\* The form was submitted with a word of white space and a definition, while
\* the list holds cards.
C35_Witness ==
  /\ direct.handler = "handleSubmit"
  /\ Len(direct.word) > 0
  /\ IsBlank(direct.word)
  /\ ~IsBlank(direct.definition)
  /\ direct.error = <<"Word and Definition are required.">>
  /\ form.error = direct.error
  /\ Len(flashcards) > 0

\* The list call of the load has been issued and its handler has not resumed.
ListInFlight == \E op \in inflight : op.kind = "list"

\* C36: once the load has started, loading is true exactly as long as its
\* list call has not been handled, whether it succeeds or fails, and every
\* state with loading true is followed by one with loading false.
C36_LoadTerminates ==
  /\ [](mounted => (loading <=> ListInFlight))
  /\ (loading ~> ~loading)

\* The load failed and is over.
C36_Witness ==
  /\ mounted
  /\ ~loading
  /\ ~ListInFlight
  /\ error # Null
  /\ error[1] = "Failed to fetch flashcards:"
=========================================================================
